---- MODULE Spec2Model ----
(***************************************************************************)
(* Live trading manager of the Nifty option strategy (LiveStrategyManager) *)
(* and the loops of runLiveStrategy that drive it.                         *)
(*                                                                         *)
(* Every async method is cut at its awaits: one action is the synchronous  *)
(* code that runs between two suspension points.  Prices are integers in   *)
(* paise (1 rupee = 100), so the 0.05 floor of the entry price is 5.       *)
(***************************************************************************)
EXTENDS Integers, Sequences, FiniteSets, TLC

\* ------------------------------------------------------------------ bounds
\* entry BUY orders the broker accepts in one run, and enterPosition calls
\* made in one run: with the two loops running (Spec) ...
MaxOrders == 1
MaxAttempts == 2
\* ... and with two callers of enterPosition racing (SpecEnter)
MaxRaceOrders == 2
MaxRaceAttempts == 2
\* ... and with two positions open under the monitor loop (SpecMulti)
MultiOrders == 2
MultiAttempts == 2
\* instruments in the option chain handed to a contract selection
MaxChain == 2
\* minute records given to the bar aggregators
MaxTicks == 3
\* daily bars in the series given to generateSignals
MaxDailyBars == 22
\* 15-minute bars in the series given to generateSignals15Min
MaxBars15Min == 102
\* rows in the option snapshot of a trade date (backtest)
MaxSnapshot == 2
\* calendar days the clock may run on after the first one (SpecHold)
HoldDays == 4

\* ------------------------------------------------------- program constants
MAX_HOLDING_BARS == 75
\* 9:15 .. 15:30 in 15-minute bars: slots 0..24 are market hours, slot 25 is
\* the period after the close
SlotsPerDay == 25
\* fetchHistoricalData(10): the history window reaches 10 days back
HistoryDays == 10
\* Math.max(ltp - entryBuffer, 0.05), in paise
MinEntryPrice == 5
\* default periods of computeIndicators (daily bars)
BbPeriod == 10
SmaPeriod == 20
AtrPeriod == 10
\* default periods of computeIndicators15Min
BbPeriod15Min == 50
SmaPeriod15Min == 100
AtrPeriod15Min == 14
\* minutes in a 15-minute slot and in a day
SlotLength == 15
DayLength == 1440
\* const threshold = 0.3, in tenths
ThresholdTenths == 3
\* strike increment of the backtest
STRIKE_STEP == 50
\* candidates.slice(0, 5): candidates that get a quote
QuotedCandidates == 5

Rs(x) ==
  x * 100

\* ------------------------------------------------------------------ clock
\* day numbers are calendar days, day % 7 is Date.getDay() (0 = Sunday)
IsTradingDay(d) ==
  (d % 7) \in 1..5

\* minutes since midnight of the first minute of a slot
SlotMinutes(s) ==
  9 * 60 + 15 + 15 * s

\* ----------------------------------------------------------------- config
\* loadConfig() with its defaults; finalRR and maxPositions come from the
\* environment
ConfigOf(maxPos, rr) ==
  [capital |-> Rs(15000), riskPerTrade |-> Rs(10), entryBuffer |-> Rs(10),
   strikeStep |-> 50, lotSize |-> 75, finalRR |-> rr, enableTrailing |-> TRUE,
   maxPositions |-> maxPos,
   marketStartHour |-> 9, marketStartMinute |-> 15,
   marketEndHour |-> 15, marketEndMinute |-> 30,
   maxDailyLoss |-> Rs(5000), maxDailyTrades |-> 10]

Configs ==
  { ConfigOf(mp, rr) : mp \in {1, 2}, rr \in {3, 8} }

\* ------------------------------------------------------------------ inputs
\* what selectBestContract resolves to: null or a contract with its quote
NoContract ==
  [tradingsymbol |-> "none", last_price |-> 0]

Contracts ==
  { [tradingsymbol |-> "NIFTY", last_price |-> p] : p \in {0, Rs(110), Rs(250)} }

OneSignal ==
  { [side |-> "long", type |-> "BB_reversal"] }

\* a contract quoted at 110, bought at the limit 110 - entryBuffer = 100
OneContract ==
  { [tradingsymbol |-> "NIFTY", last_price |-> Rs(110)], NoContract }

\* last traded prices getOptionLTP can return (0: no price in the quote)
Quotes ==
  { 0, Rs(85), Rs(100), Rs(115), Rs(135), Rs(185) }

\* how a BUY limit order fills: at its limit price, at a better price, or
\* with a report that carries no average price (0)
FillKinds ==
  { "none", "limit", "better" }

FillAtLimit ==
  { "limit" }

\* average_price of a filled BUY order with limit price lim
FillPrice(kind, lim) ==
  IF kind = "none" THEN 0
  ELSE IF kind = "better" THEN lim - Rs(5)
  ELSE lim

EnterTasks ==
  { "e1", "e2" }

LoopTasks ==
  { "trading", "monitor" }

\* the interval callbacks and the shutdown handler of runLiveStrategy
CallbackTasks ==
  LoopTasks \cup { "shutdown" }

\* ------------------------------------------------------------------ state
VARIABLES
  config,           \* this.config plus the TradingConfig of the loops
  now,              \* wall clock: [day, slot]
  capital,          \* this.capital
  positions,        \* keys of this.positions (the open set)
  insOrder,         \* keys in insertion order (Map iteration order)
  pos,              \* the LivePosition objects, by orderId
  tradingActive,    \* this.tradingActive
  currentBarIndex,  \* this.currentBarIndex
  tradingInterval,  \* the 60 s interval is still scheduled
  orders,           \* the broker's order book, order id = index
  tradeLog,         \* strategy/live_trades.jsonl
  orderLog,         \* strategy/order_log.jsonl
  attempts,         \* enterPosition calls made so far
  etask,            \* in-flight enterPosition calls
  ltask,            \* in-flight interval callbacks
  args,             \* arguments of the pure function under call
  ret               \* its return value

\* the state of the LiveStrategyManager and of the callbacks around it
managerVars ==
  << config, now, capital, positions, insOrder, pos, tradingActive,
     currentBarIndex, tradingInterval, orders, tradeLog, orderLog, attempts,
     etask, ltask >>

vars ==
  << managerVars, args, ret >>

\* no pure function is under call, or it has not returned yet
NoCall ==
  [fn |-> "none"]

\* JavaScript a || b on numbers: 0, NaN and undefined (all modelled 0) are falsy
OrElse(a, b) ==
  IF a = 0 THEN b ELSE a

Max2(a, b) ==
  IF a >= b THEN a ELSE b

IdleEnter ==
  [pc |-> "idle", signal |-> [side |-> "long", type |-> "BB_reversal"],
   contract |-> NoContract, entryPrice |-> 0, initialStop |-> 0, target1 |-> 0,
   trailingStop |-> 0, finalTarget |-> 0, quantity |-> 0, orderId |-> 0]

IdleLoop ==
  [pc |-> "idle", fn |-> "none", idx |-> 0, cur |-> 0, exitPrice |-> 0,
   reason |-> "none", tickStatus |-> "none", tickHigh |-> 0, tickLow |-> 0,
   tickBars |-> 0, after |-> "none"]

ManagerInit(cfgs, times) ==
  /\ config \in cfgs
  /\ now \in times
  /\ capital = config.capital
  /\ positions = {}
  /\ insOrder = << >>
  /\ pos = << >>
  /\ tradingActive = TRUE
  /\ currentBarIndex = 0
  /\ tradingInterval = TRUE
  /\ orders = << >>
  /\ tradeLog = << >>
  /\ orderLog = << >>
  /\ attempts = 0
  /\ etask = [e \in EnterTasks |-> IdleEnter]
  /\ ltask = [m \in CallbackTasks |-> IdleLoop]

InitWith(cfgs, times) ==
  /\ ManagerInit(cfgs, times)
  /\ args = NoCall
  /\ ret = NoCall

\* ------------------------------------------------------------ enterPosition
getNumLots(cap) ==
  IF cap >= Rs(2400000) THEN 24
  ELSE IF cap > Rs(200000) THEN cap \div Rs(100000)
  ELSE 1

\* fs.appendFileSync('strategy/order_log.jsonl', ...)
logOrderAttempt(log, kind, status, error, id) ==
  Append(log, [kind |-> kind, status |-> status, error |-> error, orderId |-> id])

BuyCount ==
  Cardinality({ i \in DOMAIN orders : orders[i].type = "BUY" })

\* the call itself, up to the first await (getNextExpiry)
EnterPosition_Check(e, sig, maxAttempts) ==
  /\ etask[e].pc = "idle"
  /\ attempts < maxAttempts
  /\ attempts' = attempts + 1
  /\ IF Cardinality(positions) >= config.maxPositions
       THEN /\ orderLog' = logOrderAttempt(orderLog, "ENTRY", "REJECTED",
                                           "Max positions reached", 0)
            /\ UNCHANGED etask
       ELSE /\ etask' = [etask EXCEPT ![e] = [IdleEnter EXCEPT !.pc = "select",
                                                               !.signal = sig]]
            /\ UNCHANGED orderLog
  /\ UNCHANGED << args, ret, config, now, capital, positions, insOrder, pos, tradingActive,
                  currentBarIndex, tradingInterval, orders, tradeLog, ltask >>

\* getNextExpiry and selectBestContract have resolved to contract c; runs up
\* to the await inside placeOptionOrder
\* a check against the whole capital
InsufficientCapital_WholeCapital(cost, cap) ==
  cost > cap

\* if (cost > this.capital * 0.8)
InsufficientCapital(cost, cap) ==
  10 * cost > 8 * cap

EnterPosition_Select(e, c) ==
  /\ etask[e].pc = "select"
  /\ LET ltp == c.last_price
         entryPrice == Max2(ltp - config.entryBuffer, MinEntryPrice)
         quantity == getNumLots(capital) * config.lotSize
         cost == entryPrice * quantity
         fail(status, error) ==
           /\ orderLog' = logOrderAttempt(orderLog, "ENTRY", status, error, 0)
           /\ etask' = [etask EXCEPT ![e] = IdleEnter]
     IN  IF c = NoContract THEN fail("FAILED", "Contract selection failed")
         ELSE IF ltp <= 0 THEN fail("FAILED", "Invalid LTP")
         ELSE IF InsufficientCapital(cost, capital)
           THEN fail("REJECTED", "Insufficient capital")
         ELSE /\ etask' = [etask EXCEPT ![e] =
                   [@ EXCEPT !.pc = "place", !.contract = c,
                      !.entryPrice = entryPrice,
                      !.initialStop = entryPrice - config.riskPerTrade,
                      !.target1 = entryPrice + config.riskPerTrade * 3,
                      !.trailingStop = entryPrice + config.riskPerTrade * 2,
                      !.finalTarget = entryPrice + config.riskPerTrade * config.finalRR,
                      !.quantity = quantity]]
              /\ UNCHANGED orderLog
  /\ UNCHANGED << args, ret, config, now, capital, positions, insOrder, pos, tradingActive,
                  currentBarIndex, tradingInterval, orders, tradeLog, attempts,
                  ltask >>

\* kc.placeOrder has answered: the order is in the book (ok) or the call threw
EnterPosition_Place(e, ok, maxOrders) ==
  /\ etask[e].pc = "place"
  /\ IF ok
       THEN /\ BuyCount < maxOrders
            /\ orders' = Append(orders,
                 [type |-> "BUY", symbol |-> etask[e].contract.tradingsymbol,
                  quantity |-> etask[e].quantity, price |-> etask[e].entryPrice,
                  status |-> "OPEN", average_price |-> 0, forPos |-> 0])
            /\ etask' = [etask EXCEPT ![e].pc = "verify",
                                      ![e].orderId = Len(orders) + 1]
            /\ UNCHANGED orderLog
       ELSE /\ orderLog' = logOrderAttempt(orderLog, "ENTRY", "FAILED",
                                           "placeOrder error", 0)
            /\ etask' = [etask EXCEPT ![e] = IdleEnter]
            /\ UNCHANGED orders
  /\ UNCHANGED << args, ret, config, now, capital, positions, insOrder, pos, tradingActive,
                  currentBarIndex, tradingInterval, tradeLog, attempts, ltask >>

\* verifyOrderFill taking every order the broker has not rejected for filled
verifyOrderFill_NotRejected(outcome, order) ==
  IF outcome = "error" THEN [filled |-> FALSE, status |-> "ERROR", averagePrice |-> 0]
  ELSE IF outcome = "missing"
    THEN [filled |-> FALSE, status |-> "NOT_FOUND", averagePrice |-> 0]
  ELSE [filled |-> order.status # "REJECTED", status |-> order.status,
        averagePrice |-> order.average_price]

\* outcome of kc.getOrders(): "ok" (the order is in the list), "missing" or
\* "error" (the call threw)
verifyOrderFill(outcome, order) ==
  IF outcome = "error" THEN [filled |-> FALSE, status |-> "ERROR", averagePrice |-> 0]
  ELSE IF outcome = "missing"
    THEN [filled |-> FALSE, status |-> "NOT_FOUND", averagePrice |-> 0]
  ELSE [filled |-> order.status = "COMPLETE", status |-> order.status,
        averagePrice |-> order.average_price]

\* the LivePosition literal built after a confirmed fill
NewPosition(t, orderStatus) ==
  [orderId |-> t.orderId, entryDate |-> now, entryBarIndex |-> currentBarIndex,
   side |-> t.signal.side, tradingSymbol |-> t.contract.tradingsymbol,
   entryPrice |-> OrElse(orderStatus.averagePrice, t.entryPrice),
   quantity |-> t.quantity, initialStop |-> t.initialStop,
   target1 |-> t.target1, trailingStop |-> t.trailingStop,
   finalTarget |-> t.finalTarget, status |-> "active", currentPrice |-> 0,
   intradayHigh |-> OrElse(orderStatus.averagePrice, t.entryPrice),
   intradayLow |-> OrElse(orderStatus.averagePrice, t.entryPrice),
   profit |-> 0, signalType |-> t.signal.type]

\* the 1 s sleep is over and verifyOrderFill has resolved
EnterPosition_Verify(e, outcome) ==
  /\ etask[e].pc = "verify"
  /\ LET t == etask[e]
         orderStatus == verifyOrderFill(outcome, orders[t.orderId])
     IN  IF ~orderStatus.filled
           THEN /\ orderLog' = logOrderAttempt(orderLog, "ENTRY", "FAILED",
                                               orderStatus.status, t.orderId)
                /\ UNCHANGED << positions, insOrder, pos >>
           ELSE /\ positions' = positions \cup {t.orderId}
                /\ insOrder' = Append(insOrder, t.orderId)
                /\ pos' = pos @@ (t.orderId :> NewPosition(t, orderStatus))
                /\ orderLog' = logOrderAttempt(orderLog, "ENTRY", "SUCCESS",
                                               "none", t.orderId)
  /\ etask' = [etask EXCEPT ![e] = IdleEnter]
  /\ UNCHANGED << args, ret, config, now, capital, tradingActive, currentBarIndex,
                  tradingInterval, orders, tradeLog, attempts, ltask >>

\* ------------------------------------------------------------------ broker
\* a working BUY limit order is filled at avg, or rejected/cancelled
Broker_Fill(i, avg) ==
  /\ i \in DOMAIN orders
  /\ orders[i].type = "BUY"
  /\ orders[i].status = "OPEN"
  /\ orders' = [orders EXCEPT ![i].status = "COMPLETE", ![i].average_price = avg]
  /\ UNCHANGED << args, ret, config, now, capital, positions, insOrder, pos, tradingActive,
                  currentBarIndex, tradingInterval, tradeLog, orderLog, attempts,
                  etask, ltask >>

Broker_Reject(i) ==
  /\ i \in DOMAIN orders
  /\ orders[i].type = "BUY"
  /\ orders[i].status = "OPEN"
  /\ orders' = [orders EXCEPT ![i].status = "REJECTED"]
  /\ UNCHANGED << args, ret, config, now, capital, positions, insOrder, pos, tradingActive,
                  currentBarIndex, tradingInterval, tradeLog, orderLog, attempts,
                  etask, ltask >>

\* ---------------------------------------------------------- clock helpers
\* isMarketOpen(config) of the config module, at the clock value t
isMarketOpen(t) ==
  LET day == t.day % 7
      currentMinutes == SlotMinutes(t.slot)
      startMinutes == config.marketStartHour * 60 + config.marketStartMinute
      endMinutes == config.marketEndHour * 60 + config.marketEndMinute
  IN  IF day = 0 \/ day = 6 THEN FALSE
      ELSE currentMinutes >= startMinutes /\ currentMinutes < endMinutes

\* isNearMarketClose(config, 15)
isNearMarketClose(t, minutesBefore) ==
  LET currentMinutes == SlotMinutes(t.slot)
      endMinutes == config.marketEndHour * 60 + config.marketEndMinute
  IN  (endMinutes - currentMinutes) <= minutesBefore

\* now.getDay() === 5 && now.getHours() >= 15 && now.getMinutes() >= 15
isFridayExit(t) ==
  /\ t.day % 7 = 5
  /\ SlotMinutes(t.slot) \div 60 >= 15
  /\ SlotMinutes(t.slot) % 60 >= 15

\* --------------------------------------------------------- monitorPositions
\* for (const [orderId, position] of this.positions): the next live key after
\* position idx of the insertion order, 0 when the iteration is over
NextKey(idx, open) ==
  LET later == { i \in DOMAIN insOrder : i > idx /\ insOrder[i] \in open }
  IN  IF later = {} THEN 0
      ELSE CHOOSE i \in later : \A j \in later : i <= j

\* monitorPositions with the final-target check moved above the stop checks
MonitorEval_TargetFirst(p, currentPrice, cbi, t) ==
  LET high == IF p.intradayHigh = 0 \/ currentPrice > p.intradayHigh
                THEN currentPrice ELSE p.intradayHigh
      low == IF p.intradayLow = 0 \/ currentPrice < p.intradayLow
               THEN currentPrice ELSE p.intradayLow
      p1 == [p EXCEPT !.currentPrice = currentPrice, !.intradayHigh = high,
                      !.intradayLow = low]
      barsHeld == cbi - p.entryBarIndex
      p2 == IF p1.status = "active" /\ high >= p1.target1
              THEN [p1 EXCEPT !.status = "trailing"] ELSE p1
  IN  IF barsHeld >= MAX_HOLDING_BARS
        THEN [p |-> p1, exit |-> "max_holding_period"]
      ELSE IF high >= p1.finalTarget
        THEN [p |-> p1, exit |-> "target"]
      ELSE IF p1.status = "active" /\ low <= p1.initialStop
        THEN [p |-> p1, exit |-> "stop_loss"]
      ELSE IF p2.status = "trailing" /\ low <= p2.trailingStop
        THEN [p |-> p2, exit |-> "trailing_stop"]
      ELSE IF isFridayExit(t)
        THEN [p |-> p2, exit |-> "friday_exit"]
      ELSE [p |-> p2, exit |-> "none"]

\* intradayHigh that follows the last price
RunningHigh_LastPrice(p, currentPrice) ==
  currentPrice

\* if (!position.intradayHigh || currentPrice > position.intradayHigh)
\*   position.intradayHigh = currentPrice
RunningHigh(p, currentPrice) ==
  IF p.intradayHigh = 0 \/ currentPrice > p.intradayHigh
    THEN currentPrice ELSE p.intradayHigh

\* if (!position.intradayLow || currentPrice < position.intradayLow)
\*   position.intradayLow = currentPrice
RunningLow(p, currentPrice) ==
  IF p.intradayLow = 0 \/ currentPrice < p.intradayLow
    THEN currentPrice ELSE p.intradayLow

\* body of the for loop of monitorPositions once getOptionLTP returned
\* currentPrice: the updated position object and the exit it asks for
MonitorEval(p, currentPrice, cbi, t) ==
  LET high == RunningHigh(p, currentPrice)
      low == RunningLow(p, currentPrice)
      p1 == [p EXCEPT !.currentPrice = currentPrice, !.intradayHigh = high,
                      !.intradayLow = low]
      barsHeld == cbi - p.entryBarIndex
      p2 == IF p1.status = "active" /\ high >= p1.target1
              THEN [p1 EXCEPT !.status = "trailing"] ELSE p1
  IN  IF barsHeld >= MAX_HOLDING_BARS
        THEN [p |-> p1, exit |-> "max_holding_period"]
      ELSE IF p1.status = "active" /\ low <= p1.initialStop
        THEN [p |-> p1, exit |-> "stop_loss"]
      ELSE IF p2.status = "trailing" /\ low <= p2.trailingStop
        THEN [p |-> p2, exit |-> "trailing_stop"]
      ELSE IF high >= p2.finalTarget
        THEN [p |-> p2, exit |-> "target"]
      ELSE IF isFridayExit(t)
        THEN [p |-> p2, exit |-> "friday_exit"]
      ELSE [p |-> p2, exit |-> "none"]

\* end of closeAllPositions (or its next position)
AdvanceCloseAll(after, idx, open) ==
  LET k == NextKey(idx, open)
  IN  IF k # 0
        THEN [task |-> [IdleLoop EXCEPT !.pc = "fetch", !.fn = "closeAll",
                                        !.after = after, !.idx = k,
                                        !.cur = insOrder[k]],
              stop |-> FALSE, clear |-> FALSE]
        ELSE [task |-> IF after = "shutdown"
                         THEN [IdleLoop EXCEPT !.pc = "done"] ELSE IdleLoop,
              stop |-> TRUE, clear |-> after = "clear"]

\* the loop moves to the position after idx; when monitorPositions is over,
\* the 60 s callback goes on to its near-close check
Advance(fn, after, idx, open) ==
  LET k == NextKey(idx, open)
  IN  IF fn = "closeAll" THEN AdvanceCloseAll(after, idx, open)
      ELSE IF k # 0
        THEN [task |-> [IdleLoop EXCEPT !.pc = "fetch", !.fn = "monitor",
                                        !.after = after, !.idx = k,
                                        !.cur = insOrder[k]],
              stop |-> FALSE, clear |-> FALSE]
      ELSE IF after = "nearClose" /\ isNearMarketClose(now, 15)
        THEN AdvanceCloseAll("clear", 0, open)
      ELSE [task |-> IdleLoop, stop |-> FALSE, clear |-> FALSE]

\* the effect of one synchronous stretch of a loop callback on the task, on
\* tradingActive (closeAllPositions / stopTrading) and on the interval
Resume(m, a) ==
  /\ ltask' = [ltask EXCEPT ![m] = a.task]
  /\ tradingActive' = IF a.stop THEN FALSE ELSE tradingActive
  /\ tradingInterval' = IF a.clear THEN FALSE ELSE tradingInterval

\* the 60 s callback of runLiveStrategy up to its first await; dailyPnL and
\* dailyTrades are locals that are never assigned after their initialisation
TradingLoop_Start ==
  LET m == "trading"
      dailyPnL == 0
      dailyTrades == 0
      absPnL == IF dailyPnL < 0 THEN 0 - dailyPnL ELSE dailyPnL
  IN  /\ tradingInterval
      /\ ltask[m].pc = "idle"
      /\ IF \/ ~isMarketOpen(now)
            \/ absPnL >= config.maxDailyLoss
            \/ dailyTrades >= config.maxDailyTrades
           THEN LET a == AdvanceCloseAll("stop", 0, positions)
                IN  /\ ltask' = [ltask EXCEPT ![m] = a.task]
                    /\ tradingActive' = IF a.stop THEN FALSE ELSE tradingActive
                    /\ tradingInterval' = FALSE
           ELSE Resume(m, Advance("monitor", "nearClose", 0, positions))
      /\ UNCHANGED << args, ret, config, now, capital, positions, insOrder, pos,
                      currentBarIndex, orders, tradeLog, orderLog, attempts,
                      etask >>

\* the 10 s callback: if (manager.isActive()) await manager.monitorPositions()
MonitorLoop_Start ==
  LET m == "monitor"
  IN  /\ ltask[m].pc = "idle"
      /\ tradingActive
      /\ positions # {}
      /\ Resume(m, Advance("monitor", "none", 0, positions))
      /\ UNCHANGED << args, ret, config, now, capital, positions, insOrder, pos,
                      currentBarIndex, orders, tradeLog, orderLog, attempts,
                      etask >>

\* the shutdown handler (SIGINT, SIGTERM) up to the first await inside
\* closeAllPositions; pc "done" is the handler past closeAllPositions
Shutdown_Start ==
  LET m == "shutdown"
      a == AdvanceCloseAll("shutdown", 0, positions)
  IN  /\ ltask[m].pc = "idle"
      /\ ltask' = [ltask EXCEPT ![m] = a.task]
      /\ tradingActive' = FALSE
      /\ tradingInterval' = FALSE
      /\ UNCHANGED << args, ret, config, now, capital, positions, insOrder, pos,
                      currentBarIndex, orders, tradeLog, orderLog, attempts,
                      etask >>

\* the error leaves the callback at its throw
CatchAndContinue_Rethrow(m, t) ==
  Resume(m, [task |-> IdleLoop, stop |-> FALSE, clear |-> FALSE])

\* catch (error) { this.log(...) } inside the for loop: the error of one
\* position is logged and the loop goes on with the next position
CatchAndContinue(m, t) ==
  Resume(m, Advance(t.fn, t.after, t.idx, positions))

\* a failed exit that drops the position from the open set
exitPosition_Failed_Drops(m, t) ==
  /\ CatchAndContinue(m, t)
  /\ positions' = positions \ {t.cur}
  /\ UNCHANGED << orders, pos, capital, tradeLog, orderLog >>

\* a failed exit that books the profit of the exit it could not place
exitPosition_Failed_Books(m, t) ==
  /\ CatchAndContinue(m, t)
  /\ capital' = capital + (t.exitPrice - pos[t.cur].entryPrice)
                             * pos[t.cur].quantity
  /\ UNCHANGED << orders, pos, positions, tradeLog, orderLog >>

\* placeOptionOrder(SELL) threw: exitPosition logs and rethrows before it
\* touches the position, capital or the map, and the loop's catch takes over
exitPosition_Failed(m, t) ==
  /\ CatchAndContinue(m, t)
  /\ UNCHANGED << orders, pos, capital, positions, tradeLog, orderLog >>

\* exitPosition up to its await: the position is looked up in the map
exitPosition_Call(m, t, p, exitPrice, reason, tickStatus, barsHeld) ==
  IF t.cur \notin positions
    THEN Resume(m, Advance(t.fn, t.after, t.idx, positions))
    ELSE /\ ltask' = [ltask EXCEPT ![m] =
              [t EXCEPT !.pc = "exit", !.exitPrice = exitPrice, !.reason = reason,
                        !.tickStatus = tickStatus, !.tickHigh = p.intradayHigh,
                        !.tickLow = p.intradayLow, !.tickBars = barsHeld]]
         /\ UNCHANGED << tradingActive, tradingInterval >>

\* getOptionLTP of the loop's current position has answered q (0: it threw)
MonitorPositions_Tick(m, q) ==
  LET t == ltask[m]
      r == MonitorEval(pos[t.cur], q, currentBarIndex, now)
  IN  /\ t.pc = "fetch"
      /\ t.fn = "monitor"
      /\ IF q = 0
           THEN /\ CatchAndContinue(m, t)
                /\ UNCHANGED pos
           ELSE /\ pos' = [pos EXCEPT ![t.cur] = r.p]
                /\ IF r.exit = "none"
                     THEN Resume(m, Advance(t.fn, t.after, t.idx, positions))
                     ELSE exitPosition_Call(m, t, r.p, q, r.exit,
                            pos[t.cur].status,
                            currentBarIndex - pos[t.cur].entryBarIndex)
      /\ UNCHANGED << args, ret, config, now, capital, positions, insOrder,
                      currentBarIndex, orders, tradeLog, orderLog, attempts,
                      etask >>

\* closeAllPositions: getOptionLTP of the current position has answered q
CloseAllPositions_Tick(m, q) ==
  LET t == ltask[m]
  IN  /\ t.pc = "fetch"
      /\ t.fn = "closeAll"
      /\ IF q = 0
           THEN CatchAndContinue(m, t)
           ELSE exitPosition_Call(m, t, pos[t.cur], q, "emergency_exit",
                  pos[t.cur].status,
                  currentBarIndex - pos[t.cur].entryBarIndex)
      /\ UNCHANGED << args, ret, config, now, capital, positions, insOrder, pos,
                      currentBarIndex, orders, tradeLog, orderLog, attempts,
                      etask >>

\* a delete that leaves the entry in the map
MapDelete_Keeps(map, orderId) ==
  map

\* this.positions.delete(orderId)
MapDelete(map, orderId) ==
  map \ {orderId}

\* saveTradeRecord: the line appended to live_trades.jsonl
TradeRecord(p, exitPrice, reason, cap) ==
  [orderId |-> p.orderId, exitDate |-> now, entryPrice |-> p.entryPrice,
   exitPrice |-> exitPrice, quantity |-> p.quantity, profit |-> p.profit,
   capital |-> cap, reason |-> reason, status |-> p.status,
   barsHeld |-> currentBarIndex - p.entryBarIndex]

\* exitPosition after the await of placeOptionOrder(SELL): the order was
\* accepted (ok) or the call threw, which the caller's catch swallows
exitPosition_Done(m, ok) ==
  LET t == ltask[m]
      position == pos[t.cur]
      profit == (t.exitPrice - position.entryPrice) * position.quantity
      closed == [position EXCEPT !.profit = profit, !.status = "closed"]
  IN  /\ t.pc = "exit"
      /\ IF ok
           THEN /\ orders' = Append(orders,
                     [type |-> "SELL", symbol |-> position.tradingSymbol,
                      quantity |-> position.quantity, price |-> t.exitPrice,
                      status |-> "OPEN", average_price |-> 0, forPos |-> t.cur])
                /\ pos' = [pos EXCEPT ![t.cur] = closed]
                /\ capital' = capital + profit
                /\ positions' = MapDelete(positions, t.cur)
                /\ tradeLog' = Append(tradeLog,
                     TradeRecord(closed, t.exitPrice, t.reason, capital + profit))
                /\ orderLog' = logOrderAttempt(orderLog, "EXIT", "SUCCESS",
                                               t.reason, t.cur)
                /\ Resume(m, Advance(t.fn, t.after, t.idx, MapDelete(positions, t.cur)))
           ELSE exitPosition_Failed(m, t)
      /\ UNCHANGED << args, ret, config, now, insOrder, currentBarIndex, attempts, etask >>

\* --------------------------------------------------------- updateIndicators
\* the trading days the broker has minute bars for, in the window
\* [today - HistoryDays, today] that fetchHistoricalData(10) asks for
WindowDays(t) ==
  { d \in (t.day - HistoryDays)..t.day : d >= 0 /\ IsTradingDay(d) }

\* number of 15-minute bars aggregateTo15Min makes of that window: full days
\* before today, and today's slots up to the current one
WindowLength(t) ==
  LET before == Cardinality({ d \in WindowDays(t) : d < t.day })
      today == IF t.day \in WindowDays(t)
                 THEN (IF t.slot < SlotsPerDay THEN t.slot + 1 ELSE SlotsPerDay)
                 ELSE 0
  IN  before * SlotsPerDay + today

\* slot of the bar at (0-based) index i of the window: every day before
\* today contributes SlotsPerDay bars
WindowSlot(i) ==
  i % SlotsPerDay

\* for (let i = length - 1; i >= 0; i--) if (barMinutes <= currentSlot) break
RECURSIVE SearchBack(_, _)
SearchBack(i, t) ==
  IF i < 0 THEN 0 - 1
  ELSE IF SlotMinutes(WindowSlot(i)) <= SlotMinutes(t.slot) THEN i
  ELSE SearchBack(i - 1, t)

\* the search of updateIndicators: the last bar whose time of day is not
\* after the current slot, else the last bar
FoundIndex(t) ==
  LET foundIndex == SearchBack(WindowLength(t) - 1, t)
  IN  IF foundIndex >= 0 THEN foundIndex ELSE WindowLength(t) - 1

\* updateIndicators after its await (ok) or with a failed fetch, which it
\* rethrows
UpdateIndicators(ok) ==
  /\ ok
  /\ currentBarIndex' = FoundIndex(now)
  /\ currentBarIndex' # currentBarIndex
  /\ UNCHANGED << args, ret, config, now, capital, positions, insOrder, pos, tradingActive,
                  tradingInterval, orders, tradeLog, orderLog, attempts, etask,
                  ltask >>

\* ------------------------------------------------------------ specifications
\* Monday 9:15 and Friday 15:15 of the third week of the calendar
Monday ==
  [day |-> 15, slot |-> 0]

FridayPreClose ==
  [day |-> 19, slot |-> 24]

EnterStep(tasks, sigs, cons, maxAttempts, maxOrders) ==
  \E e \in tasks :
    \/ \E sig \in sigs : EnterPosition_Check(e, sig, maxAttempts)
    \/ \E c \in cons : EnterPosition_Select(e, c)
    \/ \E ok \in BOOLEAN : EnterPosition_Place(e, ok, maxOrders)
    \/ \E outcome \in {"ok", "missing", "error"} : EnterPosition_Verify(e, outcome)

BrokerStep(kinds) ==
  \E i \in DOMAIN orders :
    \/ \E k \in kinds : Broker_Fill(i, FillPrice(k, orders[i].price))
    \/ Broker_Reject(i)

\* the awaits of the callbacks in flight resolve
LoopStep(tasks, quotes) ==
  \E m \in tasks :
    \/ \E q \in quotes : MonitorPositions_Tick(m, q)
    \/ \E ok \in BOOLEAN : exitPosition_Done(m, ok)

CloseAllStep(tasks, quotes) ==
  \E m \in tasks, q \in quotes : CloseAllPositions_Tick(m, q)

\* SpecEnter: two callers of enterPosition race; the loops do not run
InitEnter ==
  InitWith(Configs, {Monday})

NextEnter ==
  \/ EnterStep(EnterTasks, OneSignal, Contracts \cup {NoContract},
               MaxRaceAttempts, MaxRaceOrders)
  \/ BrokerStep(FillKinds)

SpecEnter ==
  InitEnter /\ [][NextEnter]_vars

\* Spec: one caller of enterPosition, the 60 s trading loop and the 10 s
\* monitor loop of runLiveStrategy, at a fixed hour
RaceQuotes ==
  { 0, Rs(85), Rs(135) }

Init ==
  InitWith({ConfigOf(1, 8)}, {Monday, FridayPreClose})

Next ==
  \/ EnterStep({"e1"}, OneSignal, OneContract, MaxAttempts, MaxOrders)
  \/ BrokerStep(FillAtLimit)
  \/ TradingLoop_Start
  \/ MonitorLoop_Start
  \/ LoopStep(LoopTasks, RaceQuotes)
  \/ CloseAllStep(LoopTasks, RaceQuotes)

Spec ==
  Init /\ [][Next]_vars

\* SpecTick: one caller of enterPosition, the 10 s monitor loop alone and
\* updateIndicators, at a fixed hour
InitTick ==
  InitWith({ConfigOf(1, 8)}, {Monday, FridayPreClose})

NextTick ==
  \/ EnterStep({"e1"}, OneSignal, OneContract, MaxAttempts, MaxOrders)
  \/ BrokerStep(FillAtLimit)
  \/ MonitorLoop_Start
  \/ LoopStep({"monitor"}, Quotes)
  \/ UpdateIndicators(TRUE)

SpecTick ==
  InitTick /\ [][NextTick]_vars

\* SpecHold: one caller of enterPosition, the 10 s monitor loop and
\* updateIndicators, with the wall clock moving from one day's 9:15 to the
\* next day's from the Monday on
HoldQuotes ==
  { 0, Rs(100) }

\* the wall clock (new Date()) reaches 9:15 of the next calendar day
ClockNextDay ==
  /\ now.day < Monday.day + HoldDays
  /\ now' = [day |-> now.day + 1, slot |-> 0]
  /\ UNCHANGED << args, ret, config, capital, positions, insOrder, pos, tradingActive,
                  currentBarIndex, tradingInterval, orders, tradeLog, orderLog,
                  attempts, etask, ltask >>

InitHold ==
  InitWith({ConfigOf(1, 8)}, {Monday})

NextHold ==
  \/ EnterStep({"e1"}, OneSignal, OneContract, MaxAttempts, MaxOrders)
  \/ BrokerStep(FillAtLimit)
  \/ MonitorLoop_Start
  \/ LoopStep({"monitor"}, HoldQuotes)
  \/ UpdateIndicators(TRUE)
  \/ ClockNextDay

SpecHold ==
  InitHold /\ [][NextHold]_vars

\* SpecMulti: up to two positions open at once (MAX_POSITIONS=2) under the
\* 10 s monitor loop
MultiQuotes ==
  { 0, Rs(85), Rs(100) }

InitMulti ==
  InitWith({ConfigOf(2, 8)}, {Monday})

NextMulti ==
  \/ EnterStep({"e1"}, OneSignal, OneContract, MultiAttempts, MultiOrders)
  \/ BrokerStep(FillAtLimit)
  \/ MonitorLoop_Start
  \/ LoopStep({"monitor"}, MultiQuotes)

SpecMulti ==
  InitMulti /\ [][NextMulti]_vars

\* SpecRetry: SpecTick's entry and monitor loop without updateIndicators;
\* setInterval keeps firing the 10 s callback and every await of a callback
\* in flight resolves
InitRetry ==
  InitWith({ConfigOf(1, 8)}, {Monday})

NextRetry ==
  \/ EnterStep({"e1"}, OneSignal, OneContract, MaxAttempts, MaxOrders)
  \/ BrokerStep(FillAtLimit)
  \/ MonitorLoop_Start
  \/ LoopStep({"monitor"}, RaceQuotes)

SpecRetry ==
  /\ InitRetry
  /\ [][NextRetry]_vars
  /\ WF_vars(MonitorLoop_Start)
  /\ WF_vars(LoopStep({"monitor"}, RaceQuotes))

\* SpecShutdown: the shutdown handler runs while an enterPosition call or a
\* monitorPositions tick may be in flight; price fetches and exit orders
\* succeed
ShutdownQuotes ==
  { Rs(85), Rs(100) }

LoopStepOk(tasks, quotes) ==
  \E m \in tasks :
    \/ \E q \in quotes : MonitorPositions_Tick(m, q)
    \/ exitPosition_Done(m, TRUE)

InitShutdown ==
  InitWith({ConfigOf(1, 8)}, {Monday})

NextShutdown ==
  \/ EnterStep({"e1"}, OneSignal, OneContract, MaxAttempts, MaxOrders)
  \/ BrokerStep(FillAtLimit)
  \/ MonitorLoop_Start
  \/ Shutdown_Start
  \/ LoopStepOk({"monitor", "shutdown"}, ShutdownQuotes)
  \/ CloseAllStep({"shutdown"}, ShutdownQuotes)

SpecShutdown ==
  InitShutdown /\ [][NextShutdown]_vars

\* SpecNoTrailing: one caller of enterPosition and the 10 s monitor loop
\* under a configuration with ENABLE_TRAILING other than 'true'
ConfigNoTrailing ==
  [ConfigOf(1, 8) EXCEPT !.enableTrailing = FALSE]

InitNoTrailing ==
  InitWith({ConfigNoTrailing}, {Monday})

NextNoTrailing ==
  \/ EnterStep({"e1"}, OneSignal, OneContract, MaxAttempts, MaxOrders)
  \/ BrokerStep(FillAtLimit)
  \/ MonitorLoop_Start
  \/ LoopStep({"monitor"}, Quotes)

SpecNoTrailing ==
  InitNoTrailing /\ [][NextNoTrailing]_vars

\* SpecDailyLoss: one caller of enterPosition and the 60 s trading loop
\* during market hours, with MAX_DAILY_LOSS below the loss of one stopped
\* trade; price fetches and exit orders succeed
ConfigLowLossLimit ==
  [ConfigOf(1, 8) EXCEPT !.maxDailyLoss = Rs(1000)]

LossQuotes ==
  { Rs(85), Rs(100), Rs(115) }

InitDailyLoss ==
  InitWith({ConfigLowLossLimit}, {Monday})

NextDailyLoss ==
  \/ EnterStep({"e1"}, OneSignal, OneContract, MaxAttempts, MaxOrders)
  \/ BrokerStep(FillAtLimit)
  \/ TradingLoop_Start
  \/ LoopStepOk({"trading"}, LossQuotes)

SpecDailyLoss ==
  /\ InitDailyLoss
  /\ [][NextDailyLoss]_vars
  /\ WF_vars(TradingLoop_Start)
  /\ WF_vars(LoopStepOk({"trading"}, LossQuotes))

\* SpecFriday: one caller of enterPosition and the 10 s monitor loop on a
\* Friday afternoon, at 15:15 and at 16:00, under MARKET_END_HOUR=16
ConfigLateClose ==
  [ConfigOf(1, 8) EXCEPT !.marketEndHour = 16]

FridayFourPm ==
  [day |-> 19, slot |-> 27]

FridayQuotes ==
  { 0, Rs(85), Rs(100), Rs(115) }

InitFriday ==
  InitWith({ConfigLateClose}, {FridayPreClose, FridayFourPm})

NextFriday ==
  \/ EnterStep({"e1"}, OneSignal, OneContract, MaxAttempts, MaxOrders)
  \/ BrokerStep(FillAtLimit)
  \/ MonitorLoop_Start
  \/ LoopStep({"monitor"}, FridayQuotes)

SpecFriday ==
  InitFriday /\ [][NextFriday]_vars

\* SpecCapital: one caller of enterPosition and the 10 s monitor loop with
\* two positions allowed and a capital of 10000, of which 80% covers one
\* lot bought at 100 but not one bought at 240
ConfigSmallCapital ==
  [ConfigOf(2, 8) EXCEPT !.capital = Rs(10000)]

CapitalContracts ==
  { [tradingsymbol |-> "NIFTY", last_price |-> p] :
      p \in {Rs(110), Rs(130), Rs(250)} }

InitCapital ==
  InitWith({ConfigSmallCapital}, {Monday})

NextCapital ==
  \/ EnterStep({"e1"}, OneSignal, CapitalContracts, MultiAttempts, MultiOrders)
  \/ BrokerStep(FillAtLimit)
  \/ MonitorLoop_Start
  \/ LoopStep({"monitor"}, MultiQuotes)

SpecCapital ==
  InitCapital /\ [][NextCapital]_vars

\* SpecSides: one caller of enterPosition on a long or a short signal and
\* the 10 s monitor loop, at a fixed hour
BothSignals ==
  { [side |-> "long", type |-> "BB_reversal"],
    [side |-> "short", type |-> "BB_reversal"] }

SideQuotes ==
  { Rs(85), Rs(100), Rs(135) }

InitSides ==
  InitWith({ConfigOf(1, 8)}, {Monday})

NextSides ==
  \/ EnterStep({"e1"}, BothSignals, OneContract, MaxAttempts, MaxOrders)
  \/ BrokerStep(FillAtLimit)
  \/ MonitorLoop_Start
  \/ LoopStep({"monitor"}, SideQuotes)

SpecSides ==
  InitSides /\ [][NextSides]_vars

\* ------------------------------------------------------- selectBestContract
\* Math.round(x / step) * step for a positive x (halves round up)
RoundToStep(x, step) ==
  ((2 * x + step) \div (2 * step)) * step

findNearestStrike(spotPrice, optionType, strikeStep) ==
  LET atmStrike == RoundToStep(spotPrice, strikeStep)
  IN  IF optionType = "CE" THEN atmStrike + strikeStep
      ELSE atmStrike - strikeStep

\* sequences over S of length 0..n
SeqsUpTo(S, n) ==
  UNION { [1..k -> S] : k \in 0..n }

\* s with x put behind the last element whose expiry is not after x's
InsertByExpiry(s, x) ==
  LET k == Cardinality({ i \in DOMAIN s : s[i].expiry <= x.expiry })
  IN  SubSeq(s, 1, k) \o << x >> \o SubSeq(s, k + 1, Len(s))

\* candidates.sort((a, b) => a.expiry.getTime() - b.expiry.getTime()), a
\* stable sort
RECURSIVE SortByExpiry(_)
SortByExpiry(s) ==
  IF s = << >> THEN << >>
  ELSE InsertByExpiry(SortByExpiry(SubSeq(s, 1, Len(s) - 1)), s[Len(s)])

\* s with x put behind the last element whose oi is not below x's
InsertByOi(s, x) ==
  LET k == Cardinality({ i \in DOMAIN s : s[i].oi >= x.oi })
  IN  SubSeq(s, 1, k) \o << x >> \o SubSeq(s, k + 1, Len(s))

\* enhancedCandidates.sort((a, b) => b.oi - a.oi), a stable sort
RECURSIVE SortByOiDesc(_)
SortByOiDesc(s) ==
  IF s = << >> THEN << >>
  ELSE InsertByOi(SortByOiDesc(SubSeq(s, 1, Len(s) - 1)), s[Len(s)])

\* no row: null
NullRow ==
  [instrument_type |-> "none", strike |-> 0, expiry |-> 0, oi |-> 0, volume |-> 0]

\* selectBestContract on the instrument list the broker returns, each
\* instrument carrying the oi and volume of its quote; today is the day of
\* new Date(), a time after midnight
selectBestContract(spotPrice, side, instruments, today) ==
  LET optionType == IF side = "long" THEN "CE" ELSE "PE"
      targetStrike == findNearestStrike(spotPrice, optionType, config.strikeStep)
      Keep(inst) == /\ inst.instrument_type = optionType
                    /\ inst.strike = targetStrike
                    /\ inst.expiry > today
      candidates == SelectSeq(instruments, Keep)
      sorted == SortByExpiry(candidates)
      quoted == SubSeq(sorted, 1, IF Len(sorted) < QuotedCandidates
                                    THEN Len(sorted) ELSE QuotedCandidates)
      enhancedCandidates == SortByOiDesc(quoted)
  IN  IF candidates = << >> THEN [found |-> FALSE, row |-> NullRow]
      ELSE [found |-> TRUE, row |-> enhancedCandidates[1]]

\* SpecSelect: selectBestContract on every option chain of up to MaxChain
\* instruments
ChainRows ==
  [instrument_type : {"CE", "PE"}, strike : {22000, 22050},
   expiry : {Monday.day - 1, Monday.day + 3, Monday.day + 10},
   oi : {1000, 2000}, volume : {50, 60}]

SelectCalls ==
  [fn : {"selectBestContract"}, spotPrice : {22024, 22025},
   side : {"long", "short"}, instruments : SeqsUpTo(ChainRows, MaxChain)]

SelectBestContract_Return ==
  /\ args.fn = "selectBestContract"
  /\ ret = NoCall
  /\ ret' = [fn |-> args.fn,
             value |-> selectBestContract(args.spotPrice, args.side,
                                          args.instruments, now.day)]
  /\ UNCHANGED << managerVars, args >>

InitSelect ==
  /\ ManagerInit({ConfigOf(1, 8)}, {Monday})
  /\ args \in SelectCalls
  /\ ret = NoCall

NextSelect ==
  SelectBestContract_Return

SpecSelect ==
  InitSelect /\ [][NextSelect]_vars

\* ------------------------------------------- the contract of a new position
\* inst.tradingsymbol: one symbol per contract of the instrument list
TradingSymbol(inst) ==
  << "NIFTY", inst.expiry, inst.strike, inst.instrument_type >>

\* (4 - today.getDay() + 7) % 7 || 7 days after today
NextThursday(today) ==
  today + OrElse((4 - (today % 7) + 7) % 7, 7)

\* getNextExpiry: the nearest expiry after today among the NIFTY CE
\* instruments, the next Thursday when there is none (the throw is caught)
getNextExpiry(instruments, today) ==
  LET niftyExpiries ==
        { instruments[i].expiry : i \in { j \in DOMAIN instruments :
            /\ instruments[j].instrument_type = "CE"
            /\ instruments[j].expiry > today } }
  IN  IF niftyExpiries = {} THEN NextThursday(today)
      ELSE CHOOSE d \in niftyExpiries : \A x \in niftyExpiries : d <= x

\* enterPosition from getNextExpiry to the contract fields of the position
\* literal; expiry.toISOString().slice(0, 10) is the day of the expiry, days
\* being the unit of time here
PositionContract(spotPrice, side, instruments, today) ==
  LET expiry == getNextExpiry(instruments, today)
      expiryStr == expiry
      contract == selectBestContract(spotPrice, side, instruments, today)
  IN  IF ~contract.found THEN [created |-> FALSE]
      ELSE [created |-> TRUE, strike |-> contract.row.strike,
            expiry |-> expiryStr,
            tradingSymbol |-> TradingSymbol(contract.row)]

\* SpecExpiry: enterPosition on every option chain of up to MaxChain
\* instruments, every later step of the entry succeeding
ExpiryCalls ==
  [fn : {"enterPosition"}, spotPrice : {22024, 22025},
   side : {"long", "short"}, instruments : SeqsUpTo(ChainRows, MaxChain)]

EnterPosition_Return ==
  /\ args.fn = "enterPosition"
  /\ ret = NoCall
  /\ ret' = [fn |-> args.fn,
             value |-> PositionContract(args.spotPrice, args.side,
                                        args.instruments, now.day)]
  /\ UNCHANGED << managerVars, args >>

InitExpiry ==
  /\ ManagerInit({ConfigOf(1, 8)}, {Monday})
  /\ args \in ExpiryCalls
  /\ ret = NoCall

NextExpiry ==
  EnterPosition_Return

SpecExpiry ==
  InitExpiry /\ [][NextExpiry]_vars

\* ------------------------------------------------ selectContract (backtest)
\* new Date(NaN): the expiry of a row whose expiry cell does not parse
NaNDate ==
  0 - 1

\* the comparator of candidates.sort: negative, zero or positive
CompareRows(a, b) ==
  LET expComp == a.expiryDt - b.expiryDt
      oiComp == b.oi - a.oi
  IN  IF expComp # 0 THEN expComp
      ELSE IF oiComp # 0 THEN oiComp
      ELSE b.contracts - a.contracts

\* s with x put behind the last element the comparator does not put after x
InsertByRank(s, x) ==
  LET k == Cardinality({ i \in DOMAIN s : CompareRows(s[i], x) <= 0 })
  IN  SubSeq(s, 1, k) \o << x >> \o SubSeq(s, k + 1, Len(s))

RECURSIVE SortByRank(_)
SortByRank(s) ==
  IF s = << >> THEN << >>
  ELSE InsertByRank(SortByRank(SubSeq(s, 1, Len(s) - 1)), s[Len(s)])

NullOptionRow ==
  [date |-> 0, type |-> "none", strike |-> 0, expiryDt |-> 0, oi |-> 0,
   contracts |-> 0]

\* selectContract that keeps the rows already expired on the trade date
selectContract_KeepsExpired(snapshot, side, underlyingClose) ==
  LET atm == RoundToStep(underlyingClose, STRIKE_STEP)
      targetStrike == IF side = "long" THEN atm + STRIKE_STEP ELSE atm - STRIKE_STEP
      desiredType == IF side = "long" THEN "CE" ELSE "PE"
      Matches(row) == row.type = desiredType /\ row.strike = targetStrike
      candidates == SelectSeq(snapshot, Matches)
  IN  IF candidates = << >> THEN [found |-> FALSE, row |-> NullOptionRow]
      ELSE [found |-> TRUE, row |-> SortByRank(candidates)[1]]

selectContract(snapshot, side, underlyingClose) ==
  LET atm == RoundToStep(underlyingClose, STRIKE_STEP)
      targetStrike == IF side = "long" THEN atm + STRIKE_STEP ELSE atm - STRIKE_STEP
      desiredType == IF side = "long" THEN "CE" ELSE "PE"
      Matches(row) == row.type = desiredType /\ row.strike = targetStrike
      candidates == SelectSeq(snapshot, Matches)
      tradeDate == snapshot[1].date
      Alive(row) == row.expiryDt # NaNDate /\ row.expiryDt >= tradeDate
      alive == SelectSeq(candidates, Alive)
  IN  IF candidates = << >> THEN [found |-> FALSE, row |-> NullOptionRow]
      ELSE IF alive = << >> THEN [found |-> FALSE, row |-> NullOptionRow]
      ELSE [found |-> TRUE, row |-> SortByRank(alive)[1]]

\* SpecContract: selectContract on every snapshot of up to MaxSnapshot rows
\* of one trade date
SnapshotRows ==
  [date : {Monday.day}, type : {"CE", "PE"}, strike : {22050},
   expiryDt : {NaNDate, Monday.day - 1, Monday.day, Monday.day + 7},
   oi : {1000, 2000}, contracts : {50, 60}]

ContractCalls ==
  [fn : {"selectContract"}, underlyingClose : {22024, 22025, 22124},
   side : {"long", "short"}, snapshot : SeqsUpTo(SnapshotRows, MaxSnapshot)]

SelectContract_Return ==
  /\ args.fn = "selectContract"
  /\ ret = NoCall
  /\ ret' = [fn |-> args.fn,
             value |-> selectContract(args.snapshot, args.side,
                                      args.underlyingClose)]
  /\ UNCHANGED << managerVars, args >>

InitContract ==
  /\ ManagerInit({ConfigOf(1, 8)}, {Monday})
  /\ args \in ContractCalls
  /\ ret = NoCall

NextContract ==
  SelectContract_Return

SpecContract ==
  InitContract /\ [][NextContract]_vars

\* ------------------------------------------------ indicators and signals
\* Indicator values are kept exact: the field sma holds the sum of the
\* smaPeriod closes (smaPeriod times the average), atr the sum of the
\* atrPeriod true ranges, bbMid the sum of the bbPeriod closes and bbDev the
\* sum of the squares of bbPeriod * close - bbMid over the window, so that
\*   std * std = bbDev / bbPeriod^3.
\* A comparison of the code is the same comparison cross-multiplied by the
\* period.  The value 0 the code leaves in a bar whose window is not full is
\* 0 in every scale.
Abs(x) ==
  IF x >= 0 THEN x ELSE 0 - x

Max3(a, b, c) ==
  Max2(a, Max2(b, c))

\* s[i] of the code, whose arrays start at 0
At(s, i) ==
  s[i + 1]

\* for (let j = lo; j <= hi; j++) sum += s[j]
RECURSIVE SumOver(_, _, _)
SumOver(s, lo, hi) ==
  IF lo > hi THEN 0 ELSE At(s, hi) + SumOver(s, lo, hi - 1)

\* NaN, pushed for the bars whose window is not full (every sum is >= 0)
NaN ==
  0 - 1

\* sma.push(...): the sum of the last smaPeriod closes
SmaAt(closes, i, smaPeriod) ==
  IF i < smaPeriod - 1 THEN NaN ELSE SumOver(closes, i - smaPeriod + 1, i)

\* bbMid.push(...): the sum of the last bbPeriod closes
BbMidAt(closes, i, bbPeriod) ==
  IF i < bbPeriod - 1 THEN NaN ELSE SumOver(closes, i - bbPeriod + 1, i)

\* variance += diff * diff over the window, diff scaled by bbPeriod
BbDevAt(closes, i, bbPeriod) ==
  IF i < bbPeriod - 1 THEN NaN
  ELSE LET sum == SumOver(closes, i - bbPeriod + 1, i)
           squares == [k \in DOMAIN closes |->
                        (bbPeriod * closes[k] - sum) * (bbPeriod * closes[k] - sum)]
       IN  SumOver(squares, i - bbPeriod + 1, i)

\* trueRanges.push(...); the NaN of bar 0 is never summed
TrueRangeAt(daily, i) ==
  IF i = 0 THEN NaN
  ELSE Max3(At(daily, i).high - At(daily, i).low,
            Abs(At(daily, i).high - At(daily, i - 1).close),
            Abs(At(daily, i).low - At(daily, i - 1).close))

\* atr.push(...) that takes the window as full one bar early
AtrAt_OneBarEarly(trueRanges, i, atrPeriod) ==
  IF i < atrPeriod - 1 THEN NaN
  ELSE SumOver([k \in DOMAIN trueRanges |-> Max2(trueRanges[k], 0)],
               i - atrPeriod + 1, i)

\* atr.push(...): the sum of the last atrPeriod true ranges
AtrAt(trueRanges, i, atrPeriod) ==
  IF i < atrPeriod THEN NaN ELSE SumOver(trueRanges, i - atrPeriod + 1, i)

\* the last pass j <= i of the final map in which test[j] was not NaN, or -1
RECURSIVE LastAssigned(_, _)
LastAssigned(test, i) ==
  IF i < 0 THEN 0 - 1
  ELSE IF At(test, i) # NaN THEN i
  ELSE LastAssigned(test, i - 1)

\* lastX after pass i: 0 at first, then values[j] of the last pass j in which
\* the test let it be assigned
Filled(values, test, i) ==
  LET j == LastAssigned(test, i)
  IN  IF j < 0 THEN 0 ELSE At(values, j)

computeIndicators(daily, bbPeriod, smaPeriod, atrPeriod) ==
  LET n == Len(daily)
      closes == [k \in 1..n |-> daily[k].close]
      sma == [k \in 1..n |-> SmaAt(closes, k - 1, smaPeriod)]
      bbMid == [k \in 1..n |-> BbMidAt(closes, k - 1, bbPeriod)]
      bbDev == [k \in 1..n |-> BbDevAt(closes, k - 1, bbPeriod)]
      trueRanges == [k \in 1..n |-> TrueRangeAt(daily, k - 1)]
      atr == [k \in 1..n |-> AtrAt(trueRanges, k - 1, atrPeriod)]
  IN  [k \in 1..n |->
        [close |-> daily[k].close,
         sma |-> Filled(sma, sma, k - 1),
         bbMid |-> Filled(bbMid, bbMid, k - 1),
         bbDev |-> Filled(bbDev, bbMid, k - 1),
         atr |-> Filled(atr, atr, k - 1)]]

computeIndicators15Min(bars, bbPeriod, smaPeriod, atrPeriod) ==
  computeIndicators(bars, bbPeriod, smaPeriod, atrPeriod)

\* d.close < d.bbLower, bbLower being mean - 2 * std
BelowLowerBand(d, bbPeriod) ==
  LET gap == d.bbMid - bbPeriod * d.close
  IN  gap > 0 /\ bbPeriod * gap * gap > 4 * d.bbDev

\* d.close > d.bbUpper, bbUpper being mean + 2 * std
AboveUpperBand(d, bbPeriod) ==
  LET gap == bbPeriod * d.close - d.bbMid
  IN  gap > 0 /\ bbPeriod * gap * gap > 4 * d.bbDev

\* the signals one pass of the loop body pushes for bar i
BarSignals(d, prev, i, bbPeriod, smaPeriod, atrPeriod) ==
  (IF BelowLowerBand(d, bbPeriod)
     THEN << [index |-> i, side |-> "long", type |-> "BB_reversal"] >>
     ELSE IF AboveUpperBand(d, bbPeriod)
       THEN << [index |-> i, side |-> "short", type |-> "BB_reversal"] >>
       ELSE << >>)
  \o
  (IF /\ 10 * atrPeriod * d.close > 10 * atrPeriod * prev.close + ThresholdTenths * d.atr
      /\ smaPeriod * d.close > d.sma
      /\ d.sma > prev.sma
     THEN << [index |-> i, side |-> "long", type |-> "breakout"] >>
     ELSE << >>)
  \o
  (IF /\ 10 * atrPeriod * d.close < 10 * atrPeriod * prev.close - ThresholdTenths * d.atr
      /\ smaPeriod * d.close < d.sma
      /\ d.sma < prev.sma
     THEN << [index |-> i, side |-> "short", type |-> "breakout"] >>
     ELSE << >>)

\* the signals pushed by the passes 1 .. last of the loop of generateSignals
RECURSIVE SignalsUpTo(_, _, _, _, _)
SignalsUpTo(daily, last, bbPeriod, smaPeriod, atrPeriod) ==
  IF last < 1 THEN << >>
  ELSE SignalsUpTo(daily, last - 1, bbPeriod, smaPeriod, atrPeriod)
       \o BarSignals(At(daily, last), At(daily, last - 1), last,
                     bbPeriod, smaPeriod, atrPeriod)

generateSignals(daily, bbPeriod, smaPeriod, atrPeriod) ==
  SignalsUpTo(daily, Len(daily) - 1, bbPeriod, smaPeriod, atrPeriod)

\* the same loop with: if (bar.atr === 0 || bar.sma === 0) continue
RECURSIVE Signals15MinUpTo(_, _, _, _, _)
Signals15MinUpTo(bars, last, bbPeriod, smaPeriod, atrPeriod) ==
  IF last < 1 THEN << >>
  ELSE Signals15MinUpTo(bars, last - 1, bbPeriod, smaPeriod, atrPeriod)
       \o (IF At(bars, last).atr = 0 \/ At(bars, last).sma = 0 THEN << >>
           ELSE BarSignals(At(bars, last), At(bars, last - 1), last,
                           bbPeriod, smaPeriod, atrPeriod))

generateSignals15Min(bars, bbPeriod, smaPeriod, atrPeriod) ==
  Signals15MinUpTo(bars, Len(bars) - 1, bbPeriod, smaPeriod, atrPeriod)

\* SpecSignals: both generators on price series of a few shapes: level,
\* rising, falling, a level with a step up or down at bar `at`, and the
\* closes 100 (nine times) then 90 of scenario A
SeriesShapes ==
  {"flat", "rise", "fall", "up", "down", "scenarioA"}

SeriesBase ==
  200

SeriesJump ==
  8

CloseOf(shape, at, n, i) ==
  CASE shape = "flat" -> SeriesBase
    [] shape = "rise" -> SeriesBase + i
    [] shape = "fall" -> SeriesBase + n - i
    [] shape = "up" -> IF i >= at THEN SeriesBase + SeriesJump ELSE SeriesBase
    [] shape = "down" -> IF i >= at THEN SeriesBase - SeriesJump ELSE SeriesBase
    [] shape = "scenarioA" -> IF i >= 9 THEN 90 ELSE 100

\* the bars aggregateToDaily / aggregateTo15Min hand over: OHLC of the
\* period (the indicator fields, all 0, are overwritten by computeIndicators)
SeriesOf(shape, at, n, range) ==
  [k \in 1..n |-> [close |-> CloseOf(shape, at, n, k - 1),
                   high |-> CloseOf(shape, at, n, k - 1) + range,
                   low |-> CloseOf(shape, at, n, k - 1) - range]]

DailyCalls ==
  [fn : {"generateSignals"}, shape : SeriesShapes,
   at : {1, BbPeriod - 1, AtrPeriod, SmaPeriod - 1, SmaPeriod},
   n : 2..MaxDailyBars, range : {0, 2}]

Calls15Min ==
  [fn : {"generateSignals15Min"}, shape : SeriesShapes,
   at : {1, AtrPeriod15Min, BbPeriod15Min - 1, SmaPeriod15Min - 1,
         SmaPeriod15Min},
   n : {2, BbPeriod15Min, SmaPeriod15Min, MaxBars15Min - 1, MaxBars15Min},
   range : {0, 2}]

\* main: generateSignalsDebug(computeIndicators(daily))
GenerateSignals_Return ==
  /\ args.fn = "generateSignals"
  /\ ret = NoCall
  /\ ret' = [fn |-> args.fn,
             value |-> generateSignals(
                         computeIndicators(
                           SeriesOf(args.shape, args.at, args.n, args.range),
                           BbPeriod, SmaPeriod, AtrPeriod),
                         BbPeriod, SmaPeriod, AtrPeriod)]
  /\ UNCHANGED << managerVars, args >>

\* updateIndicators / checkForSignals:
\* generateSignals15Min(computeIndicators15Min(bars15Min))
GenerateSignals15Min_Return ==
  /\ args.fn = "generateSignals15Min"
  /\ ret = NoCall
  /\ ret' = [fn |-> args.fn,
             value |-> generateSignals15Min(
                         computeIndicators15Min(
                           SeriesOf(args.shape, args.at, args.n, args.range),
                           BbPeriod15Min, SmaPeriod15Min, AtrPeriod15Min),
                         BbPeriod15Min, SmaPeriod15Min, AtrPeriod15Min)]
  /\ UNCHANGED << managerVars, args >>

IndicatorCalls ==
  [fn : {"computeIndicators"}, shape : SeriesShapes,
   at : {1, BbPeriod - 1, AtrPeriod, SmaPeriod - 1, SmaPeriod},
   n : 2..MaxDailyBars, range : {0, 2}]

IndicatorCalls15Min ==
  [fn : {"computeIndicators15Min"}, shape : SeriesShapes,
   at : {1, AtrPeriod15Min, BbPeriod15Min - 1, SmaPeriod15Min - 1,
         SmaPeriod15Min},
   n : {2, AtrPeriod15Min + 1, BbPeriod15Min, SmaPeriod15Min,
        MaxBars15Min - 1, MaxBars15Min},
   range : {0, 2}]

\* main: computeIndicators(daily)
ComputeIndicators_Return ==
  /\ args.fn = "computeIndicators"
  /\ ret = NoCall
  /\ ret' = [fn |-> args.fn,
             value |-> computeIndicators(
                         SeriesOf(args.shape, args.at, args.n, args.range),
                         BbPeriod, SmaPeriod, AtrPeriod)]
  /\ UNCHANGED << managerVars, args >>

\* updateIndicators: computeIndicators15Min(bars15Min)
ComputeIndicators15Min_Return ==
  /\ args.fn = "computeIndicators15Min"
  /\ ret = NoCall
  /\ ret' = [fn |-> args.fn,
             value |-> computeIndicators15Min(
                         SeriesOf(args.shape, args.at, args.n, args.range),
                         BbPeriod15Min, SmaPeriod15Min, AtrPeriod15Min)]
  /\ UNCHANGED << managerVars, args >>

InitSignals ==
  /\ ManagerInit({ConfigOf(1, 8)}, {Monday})
  /\ args \in DailyCalls \cup Calls15Min \cup IndicatorCalls
                \cup IndicatorCalls15Min
  /\ ret = NoCall

NextSignals ==
  \/ GenerateSignals_Return
  \/ GenerateSignals15Min_Return
  \/ ComputeIndicators_Return
  \/ ComputeIndicators15Min_Return

SpecSignals ==
  InitSignals /\ [][NextSignals]_vars

\* ------------------------------------------------------- bar aggregators
\* A minute record is [datetime, open, high, low, close], datetime being
\* the minute counted from the start of day 0.

\* dateKey(rec.datetime): the calendar day
dateKey(datetime) ==
  datetime \div DayLength

\* slotTime: the start of the 15-minute slot of barTime
SlotTime(datetime) ==
  dateKey(datetime) * DayLength
    + ((datetime % DayLength) \div SlotLength) * SlotLength

\* Math.max(...records.map((r) => r.high))
MaxHigh(records) ==
  CHOOSE x \in { records[k].high : k \in DOMAIN records } :
    \A k \in DOMAIN records : x >= records[k].high

\* Math.min(...records.map((r) => r.low))
MinLow(records) ==
  CHOOSE x \in { records[k].low : k \in DOMAIN records } :
    \A k \in DOMAIN records : x <= records[k].low

\* records.sort((a, b) => a.datetime - b.datetime): stable
InsertByTime(s, x) ==
  LET k == Cardinality({ i \in DOMAIN s : s[i].datetime <= x.datetime })
  IN  SubSeq(s, 1, k) \o << x >> \o SubSeq(s, k + 1, Len(s))

RECURSIVE SortByTime(_)
SortByTime(s) ==
  IF s = << >> THEN << >>
  ELSE InsertByTime(SortByTime(SubSeq(s, 1, Len(s) - 1)), s[Len(s)])

\* Object.keys(byDate).sort(): the days that have a record, ascending
RECURSIVE SortedKeys(_)
SortedKeys(S) ==
  IF S = {} THEN << >>
  ELSE LET least == CHOOSE x \in S : \A y \in S : x <= y
       IN  << least >> \o SortedKeys(S \ {least})

\* the bar pushed for a group of records already in order
BarOf(start, records) ==
  [datetime |-> start,
   open |-> records[1].open,
   high |-> MaxHigh(records),
   low |-> MinLow(records),
   close |-> records[Len(records)].close]

aggregateToDaily(minuteData) ==
  LET days == SortedKeys({ dateKey(minuteData[k].datetime) : k \in DOMAIN minuteData })
      OfDay(dKey) ==
        LET Same(rec) == dateKey(rec.datetime) = dKey
        IN  SortByTime(SelectSeq(minuteData, Same))
  IN  [k \in DOMAIN days |-> BarOf(days[k] * DayLength, OfDay(days[k]))]

\* barStartTime = null
NoTime ==
  0 - 1

\* bars15Min, currentBar and barStartTime after the first k passes of
\* minuteBars.forEach
RECURSIVE Aggregate15MinUpTo(_, _)
Aggregate15MinUpTo(minuteBars, k) ==
  IF k = 0
    THEN [bars15Min |-> << >>, currentBar |-> << >>, barStartTime |-> NoTime]
  ELSE
    LET before == Aggregate15MinUpTo(minuteBars, k - 1)
        bar == minuteBars[k]
        slotTime == SlotTime(bar.datetime)
        newSlot == before.barStartTime # NoTime /\ slotTime # before.barStartTime
        pushed == IF newSlot /\ before.currentBar # << >>
                    THEN Append(before.bars15Min,
                                BarOf(before.barStartTime, before.currentBar))
                    ELSE before.bars15Min
        current == Append(IF newSlot THEN << >> ELSE before.currentBar, bar)
    IN  [bars15Min |-> IF k = Len(minuteBars)
                         THEN Append(pushed, BarOf(slotTime, current))
                         ELSE pushed,
         currentBar |-> current,
         barStartTime |-> slotTime]

aggregateTo15Min(minuteBars) ==
  Aggregate15MinUpTo(minuteBars, Len(minuteBars)).bars15Min

\* SpecBars: both aggregators on up to MaxTicks minute records of distinct
\* times, in every order.  The times: 9:15, 9:20 and 9:30 (two slots, then an
\* empty one) and 10:00 of one day, 9:15 of the next.
TickTimes ==
  { Monday.day * DayLength + 555, Monday.day * DayLength + 560,
    Monday.day * DayLength + 570, Monday.day * DayLength + 600,
    (Monday.day + 1) * DayLength + 555 }

TickLevels ==
  {100, 120}

MinuteRecords ==
  { [datetime |-> t, open |-> p, high |-> p + 5, low |-> p - 5, close |-> p + 1] :
      t \in TickTimes, p \in TickLevels }

DistinctTimes(s) ==
  \A i, j \in DOMAIN s : i # j => s[i].datetime # s[j].datetime

AggregateCalls ==
  { c \in [fn : {"aggregateToDaily", "aggregateTo15Min"},
           minuteData : SeqsUpTo(MinuteRecords, MaxTicks)] :
      DistinctTimes(c.minuteData) }

AggregateToDaily_Return ==
  /\ args.fn = "aggregateToDaily"
  /\ ret = NoCall
  /\ ret' = [fn |-> args.fn, value |-> aggregateToDaily(args.minuteData)]
  /\ UNCHANGED << managerVars, args >>

AggregateTo15Min_Return ==
  /\ args.fn = "aggregateTo15Min"
  /\ ret = NoCall
  /\ ret' = [fn |-> args.fn, value |-> aggregateTo15Min(args.minuteData)]
  /\ UNCHANGED << managerVars, args >>

InitBars ==
  /\ ManagerInit({ConfigOf(1, 8)}, {Monday})
  /\ args \in AggregateCalls
  /\ ret = NoCall

NextBars ==
  \/ AggregateToDaily_Return
  \/ AggregateTo15Min_Return

SpecBars ==
  InitBars /\ [][NextBars]_vars

\* -------------------------------------------------------- backtestTrailing
\* Prices of the backtest are whole rupees.
LOT_SIZE == 75
START_CAPITAL == 15000
ENTRY_BUFFER == 10
RISK_PER_TRADE == 10
\* for (let j = 1; j <= 3; j++) and Math.min(idx + 3, daily.length - 1)
HoldingBars == 3

\* a day on which the option data holds no usable row of the contract (no
\* snapshot, no row of the same type, strike and expiry, or NaN low / high)
NoRow ==
  [ltp |-> 0, low |-> NaN, high |-> NaN]

NoTrade ==
  [traded |-> FALSE]

Min2(a, b) ==
  IF a <= b THEN a ELSE b

\* row.ltp || row.high || row.low
RowPrice(row) ==
  OrElse(OrElse(row.ltp, row.high), row.low)

\* initialStop, target1, trailingStop and finalTarget of one trade
TradeLevels(entryLimit, finalRR) ==
  [entryLimit |-> entryLimit,
   initialStop |-> entryLimit - RISK_PER_TRADE,
   target1 |-> entryLimit + 3 * RISK_PER_TRADE,
   trailingStop |-> entryLimit + 2 * RISK_PER_TRADE,
   finalTarget |-> entryLimit + finalRR * RISK_PER_TRADE]

NoExit(hitTarget1, currentStop) ==
  [exited |-> FALSE, exitPrice |-> NaN, exitBar |-> 0,
   hitTarget1 |-> hitTarget1, currentStop |-> currentStop]

\* a bar whose stop stays at initialStop after target1 was reached
BarExit_KeepsStop(row, j, lv, hitTarget1, currentStop) ==
  IF row.high >= lv.finalTarget
    THEN [exited |-> TRUE, exitPrice |-> lv.finalTarget, exitBar |-> j,
          hitTarget1 |-> hitTarget1, currentStop |-> currentStop]
  ELSE IF row.low <= lv.initialStop
    THEN [exited |-> TRUE, exitPrice |-> lv.initialStop, exitBar |-> j,
          hitTarget1 |-> hitTarget1 \/ row.high >= lv.target1,
          currentStop |-> lv.initialStop]
  ELSE NoExit(hitTarget1 \/ row.high >= lv.target1, lv.initialStop)

\* one bar of the contract once its low and high are known: final target
\* first, then the move of the stop at target1, then the stop
BarExit(row, j, lv, hitTarget1, currentStop) ==
  IF row.high >= lv.finalTarget
    THEN [exited |-> TRUE, exitPrice |-> lv.finalTarget, exitBar |-> j,
          hitTarget1 |-> hitTarget1, currentStop |-> currentStop]
  ELSE LET moved == ~hitTarget1 /\ row.high >= lv.target1
           hit == hitTarget1 \/ moved
           stop == IF moved THEN lv.trailingStop ELSE currentStop
       IN  IF row.low <= stop
             THEN [exited |-> TRUE, exitPrice |-> stop, exitBar |-> j,
                   hitTarget1 |-> hit, currentStop |-> stop]
           ELSE NoExit(hit, stop)

\* for (let j = 1; j <= 3; j++): the bars after the entry day, later[j] being
\* the row of the contract on daily[idx + j]; the loop breaks where the daily
\* series ends and skips a day without a usable row
RECURSIVE LaterBarsExit(_, _, _, _, _)
LaterBarsExit(later, j, lv, hitTarget1, currentStop) ==
  IF j > HoldingBars \/ j > Len(later)
    THEN NoExit(hitTarget1, currentStop)
  ELSE IF later[j].low = NaN \/ later[j].high = NaN
    THEN LaterBarsExit(later, j + 1, lv, hitTarget1, currentStop)
  ELSE LET r == BarExit(later[j], j, lv, hitTarget1, currentStop)
       IN  IF r.exited THEN r
           ELSE LaterBarsExit(later, j + 1, lv, r.hitTarget1, r.currentStop)

\* if (exitPrice === undefined): close at the LTP of
\* daily[Math.min(idx + 3, daily.length - 1)]
HoldingExit(contract, later) ==
  LET endBar == Min2(HoldingBars, Len(later))
      row == IF endBar = 0 THEN contract ELSE later[endBar]
      ltpExit == RowPrice(row)
  IN  IF ltpExit > 0
        THEN [exited |-> TRUE, exitPrice |-> ltpExit, exitBar |-> endBar]
      ELSE [exited |-> FALSE, exitPrice |-> NaN, exitBar |-> endBar]

\* body of signals.forEach for one signal: sig.contract is the row
\* selectContract returned on the signal day, sig.later the rows of the same
\* contract on the days that follow in the daily series
SimulateTrade(sig, finalRR, cap) ==
  LET contract == sig.contract
      ltp == RowPrice(contract)
      entryLimit == ltp - ENTRY_BUFFER
      cost == entryLimit * LOT_SIZE
      lv == TradeLevels(entryLimit, finalRR)
      day0 == BarExit(contract, 0, lv, FALSE, lv.initialStop)
      loop == IF day0.exited THEN day0
              ELSE LaterBarsExit(sig.later, 1, lv, day0.hitTarget1,
                                 day0.currentStop)
      exit == IF loop.exited THEN loop ELSE HoldingExit(contract, sig.later)
      profit == (exit.exitPrice - entryLimit) * LOT_SIZE
  IN  IF ltp <= 0 THEN NoTrade
      ELSE IF cost > cap THEN NoTrade
      ELSE IF contract.low = NaN \/ contract.high = NaN THEN NoTrade
      ELSE IF contract.low > entryLimit \/ contract.high < entryLimit
        THEN NoTrade
      ELSE IF ~exit.exited THEN NoTrade
      ELSE [traded |-> TRUE, entryDate |-> sig.idx,
            exitDate |-> sig.idx + exit.exitBar,
            entryLimit |-> entryLimit, initialStop |-> lv.initialStop,
            target1 |-> lv.target1, trailingStop |-> lv.trailingStop,
            finalTarget |-> lv.finalTarget, exitPrice |-> exit.exitPrice,
            profit |-> profit, capitalAfter |-> cap + profit]

\* the trades and the capital after the first n signals
RECURSIVE TradesUpTo(_, _, _)
TradesUpTo(signals, n, finalRR) ==
  IF n = 0 THEN [capital |-> START_CAPITAL, trades |-> << >>]
  ELSE LET before == TradesUpTo(signals, n - 1, finalRR)
           t == SimulateTrade(signals[n], finalRR, before.capital)
       IN  IF t.traded
             THEN [capital |-> t.capitalAfter,
                   trades |-> Append(before.trades, t)]
           ELSE before

backtestTrailing(signals, finalRR) ==
  TradesUpTo(signals, Len(signals), finalRR).trades

\* rows of a contract bought near 100: a quiet day, a quiet day without LTP,
\* a fall through the stop, a rise to target1 with a low under the trailing
\* stop, a day wholly above the trailing stop, and days that reach 180
OptionRows ==
  { [ltp |-> 110, low |-> 95, high |-> 115],
    [ltp |-> 0, low |-> 95, high |-> 115],
    [ltp |-> 110, low |-> 85, high |-> 115],
    [ltp |-> 110, low |-> 95, high |-> 135],
    [ltp |-> 130, low |-> 125, high |-> 135],
    [ltp |-> 110, low |-> 85, high |-> 185],
    [ltp |-> 130, low |-> 125, high |-> 185] }

\* the rows of the contract on the days after the signal: as many as the
\* daily series has bars left, up to the holding period
LaterRows ==
  SeqsUpTo(OptionRows \cup {NoRow}, HoldingBars)

FirstSignals ==
  [idx : {20}, contract : OptionRows, later : LaterRows]

\* a second signal, after the first trade is over
SecondSignals ==
  [idx : {25}, contract : {[ltp |-> 110, low |-> 95, high |-> 115]},
   later : {<< >>, << [ltp |-> 110, low |-> 85, high |-> 115] >>}]

BacktestCalls ==
  [fn : {"backtestTrailing"}, finalRR : {3, 8},
   signals : { << s >> : s \in FirstSignals }
             \cup { << s, u >> : s \in FirstSignals, u \in SecondSignals }]

BacktestTrailing_Return ==
  /\ args.fn = "backtestTrailing"
  /\ ret = NoCall
  /\ ret' = [fn |-> args.fn,
             value |-> backtestTrailing(args.signals, args.finalRR)]
  /\ UNCHANGED << managerVars, args >>

InitBacktest ==
  /\ ManagerInit({ConfigOf(1, 8)}, {Monday})
  /\ args \in BacktestCalls
  /\ ret = NoCall

NextBacktest ==
  BacktestTrailing_Return

SpecBacktest ==
  InitBacktest /\ [][NextBacktest]_vars

\* --------------------------------------------- the live machine on daily rows
\* The live position state machine driven by the rows the backtest reads: in
\* each period the monitor sees the low and the high of the row, in the order
\* given, one tick each; a period is one trading day of SlotsPerDay bars, so
\* that MAX_HOLDING_BARS bars are the three days of the backtest.
LivePositionOf(lv) ==
  [status |-> "active", entryBarIndex |-> 0, entryPrice |-> lv.entryLimit,
   initialStop |-> lv.initialStop, target1 |-> lv.target1,
   trailingStop |-> lv.trailingStop, finalTarget |-> lv.finalTarget,
   currentPrice |-> 0, intradayHigh |-> lv.entryLimit,
   intradayLow |-> lv.entryLimit]

\* the prices getOptionLTP returns during the rows up to bar n
RECURSIVE TicksUpTo(_, _, _)
TicksUpTo(sig, n, order) ==
  IF n < 0 THEN << >>
  ELSE LET row == IF n = 0 THEN sig.contract ELSE sig.later[n]
           seen == IF row.low = NaN \/ row.high = NaN THEN << >>
                   ELSE IF order = "lowFirst"
                     THEN << [price |-> row.low, bar |-> n],
                             [price |-> row.high, bar |-> n] >>
                   ELSE << [price |-> row.high, bar |-> n],
                           [price |-> row.low, bar |-> n] >>
       IN  TicksUpTo(sig, n - 1, order) \o seen

\* monitorPositions tick after tick from tick k on, every exit order filled
RECURSIVE LiveReplay(_, _, _)
LiveReplay(p, ticks, k) ==
  IF k > Len(ticks) THEN [closed |-> FALSE]
  ELSE LET r == MonitorEval(p, ticks[k].price, ticks[k].bar * SlotsPerDay,
                            Monday)
       IN  IF r.exit # "none"
             THEN [closed |-> TRUE, exitBar |-> ticks[k].bar,
                   reason |-> r.exit, exitPrice |-> ticks[k].price]
           ELSE LiveReplay(r.p, ticks, k + 1)

LiveExit(sig, finalRR, order) ==
  LiveReplay(LivePositionOf(TradeLevels(RowPrice(sig.contract) - ENTRY_BUFFER,
                                        finalRR)),
             TicksUpTo(sig, Len(sig.later), order), 1)

\* ------------------------------------------------------------------ claims
\* C1: however concurrent enterPosition calls interleave, the open-position
\* map never holds more than config.maxPositions positions.
C1_MaxPositionsRespected ==
  Cardinality(positions) <= config.maxPositions

SellOrders(id) ==
  { i \in DOMAIN orders : orders[i].type = "SELL" /\ orders[i].forPos = id }

TradeRecordsOf(id) ==
  { i \in DOMAIN tradeLog : tradeLog[i].orderId = id }

\* C2: exit is exactly-once per position: at most one exit SELL order is
\* placed for it, at most one TradeRecord is appended for it, and capital
\* has taken the profit of each closed position exactly once.
C2_ExitExactlyOnce ==
  /\ \A id \in DOMAIN pos :
       /\ Cardinality(SellOrders(id)) <= 1
       /\ Cardinality(TradeRecordsOf(id)) <= 1
       /\ pos[id].status = "closed" => Cardinality(TradeRecordsOf(id)) = 1
  /\ \A i \in DOMAIN tradeLog :
       tradeLog[i].capital =
         (IF i = 1 THEN config.capital ELSE tradeLog[i - 1].capital)
           + pos[tradeLog[i].orderId].profit

\* an enterPosition call returns null in this step
ReturnsNull(e) ==
  /\ etask[e].pc # "idle"
  /\ etask'[e].pc = "idle"
  /\ etask[e].orderId \notin positions' \/ etask[e].pc # "verify"

\* C3: a Position is inserted into the open set only by a call whose entry
\* order the broker reports COMPLETE; a call whose order placement throws or
\* whose fill is not confirmed returns null and leaves the open set and
\* capital as they were.
C3_InsertOnlyOnConfirmedFill ==
  [][ /\ \A id \in positions' \ positions :
           /\ orders[id].status = "COMPLETE"
           /\ \E e \in EnterTasks : etask[e].pc = "verify" /\ etask[e].orderId = id
      /\ \A e \in EnterTasks :
           /\ ReturnsNull(e) => positions' = positions /\ capital' = capital
           /\ ( /\ etask[e].pc = "verify"
                /\ etask'[e].pc = "idle"
                /\ orders[etask[e].orderId].status # "COMPLETE" )
              => ReturnsNull(e)
           /\ (etask[e].pc = "place" /\ etask'[e].pc = "idle") => ReturnsNull(e)
    ]_vars

\* C3 witness: one call has inserted a position after a confirmed fill and
\* another call has returned null because its order was not filled
C3_Witness ==
  /\ positions # {}
  /\ \A id \in positions : orders[id].status = "COMPLETE"
  /\ \E i \in DOMAIN orderLog :
       /\ orderLog[i].status = "FAILED"
       /\ orderLog[i].error \in {"OPEN", "REJECTED"}

\* a monitorPositions tick of loop m has asked for an exit of the position
\* and the exit's SELL order is being placed
ExitAsked(m) ==
  /\ ltask[m].pc = "exit"
  /\ ltask[m].fn = "monitor"

\* the stop condition and the final-target condition both held on the tick
\* of loop m, for a position that was active when the tick began
StopAndTargetHit(m) ==
  /\ ExitAsked(m)
  /\ ltask[m].tickStatus = "active"
  /\ ltask[m].tickLow <= pos[ltask[m].cur].initialStop
  /\ ltask[m].tickHigh >= pos[ltask[m].cur].finalTarget

C5_TransitionDoesNotExit ==
  \A m \in LoopTasks :
    ExitAsked(m) =>
      ~(ltask[m].tickStatus = "active" /\ pos[ltask[m].cur].status = "trailing")

\* the position of Scenario B: entry 100, R 10, k 8
ScenarioB(p) ==
  /\ p.entryPrice = Rs(100)
  /\ p.initialStop = Rs(90)
  /\ p.trailingStop = Rs(120)
  /\ p.target1 = Rs(130)
  /\ p.finalTarget = Rs(180)

\* C6: Scenario B on the path 100, 135, 115 (outside the Friday window and
\* within the holding limit): the tick at 135 leaves the position open, and
\* the tick at 115 exits it with reason trailing_stop at 120 with profit
\* (120 - 100) x quantity.
C6_ScenarioB ==
  /\ \A m \in LoopTasks :
       ( /\ ExitAsked(m)
         /\ ScenarioB(pos[ltask[m].cur])
         /\ ~isFridayExit(now)
         /\ ltask[m].tickBars < MAX_HOLDING_BARS
         /\ ltask[m].tickLow = Rs(100)
         /\ ltask[m].tickHigh = Rs(135) )
       => /\ pos[ltask[m].cur].currentPrice = Rs(115)
          /\ ltask[m].reason = "trailing_stop"
          /\ ltask[m].exitPrice = Rs(120)
  /\ \A i \in DOMAIN tradeLog :
       ( /\ ScenarioB(pos[tradeLog[i].orderId])
         /\ tradeLog[i].reason = "trailing_stop" )
       => /\ tradeLog[i].exitPrice = Rs(120)
          /\ tradeLog[i].profit = (Rs(120) - Rs(100)) * tradeLog[i].quantity

\* the level a level-triggered exit reason belongs to
LevelOf(p, reason) ==
  IF reason = "stop_loss" THEN p.initialStop
  ELSE IF reason = "trailing_stop" THEN p.trailingStop
  ELSE p.finalTarget

\* C7: a level-triggered exit is made at its level: the exit order, the
\* profit and the TradeRecord of a stop_loss exit use initialStop, of a
\* trailing_stop exit trailingStop and of a target exit finalTarget.
C7_ExitAtLevel ==
  /\ \A m \in LoopTasks :
       (ExitAsked(m) /\ ltask[m].reason \in {"stop_loss", "trailing_stop", "target"})
       => ltask[m].exitPrice = LevelOf(pos[ltask[m].cur], ltask[m].reason)
  /\ \A i \in DOMAIN tradeLog :
       tradeLog[i].reason \in {"stop_loss", "trailing_stop", "target"}
       => LET p == pos[tradeLog[i].orderId]
              level == LevelOf(p, tradeLog[i].reason)
          IN  /\ tradeLog[i].exitPrice = level
              /\ tradeLog[i].profit = (level - p.entryPrice) * p.quantity

\* C8: the levels of every open position derive from its recorded entry
\* price: initialStop = entryPrice - R, trailingStop = entryPrice + 2R,
\* target1 = entryPrice + 3R, finalTarget = entryPrice + finalRR x R.
C8_LevelsFromEntryPrice ==
  \A id \in positions :
    LET p == pos[id]
        R == config.riskPerTrade
    IN  /\ p.initialStop = p.entryPrice - R
        /\ p.trailingStop = p.entryPrice + 2 * R
        /\ p.target1 = p.entryPrice + 3 * R
        /\ p.finalTarget = p.entryPrice + config.finalRR * R

\* C9: for every configured R > 0 and finalRR, every created Position has
\* initialStop < entryPrice < trailingStop < target1 < finalTarget.
C9_LevelsOrdered ==
  config.riskPerTrade > 0 =>
    \A id \in DOMAIN pos :
      LET p == pos[id]
      IN  /\ p.initialStop < p.entryPrice
          /\ p.entryPrice < p.trailingStop
          /\ p.trailingStop < p.target1
          /\ p.target1 < p.finalTarget

\* index of the 15-minute bar of clock value t, counted over all trading days
BarNumber(t) ==
  SlotsPerDay * Cardinality({ d \in 0..(t.day - 1) : IsTradingDay(d) })
    + (IF t.slot < SlotsPerDay THEN t.slot ELSE SlotsPerDay - 1)

\* C10: no tick exits a position with reason max_holding_period before 75
\* fifteen-minute bars have elapsed since the bar of its entry.
C10_NoEarlyHoldingExit ==
  \A m \in LoopTasks :
    (ExitAsked(m) /\ ltask[m].reason = "max_holding_period")
    => BarNumber(now) - BarNumber(pos[ltask[m].cur].entryDate) >= MAX_HOLDING_BARS


\* 15-minute bars elapsed between the bar of clock value t0 and that of t1
BarsElapsed(t0, t1) ==
  BarNumber(t1) - BarNumber(t0)

\* the step is a monitorPositions tick of loop m whose price fetch succeeded
\* with a price other than the position's last one, on an open position
TickWithNewPrice(m) ==
  /\ ltask[m].pc = "fetch"
  /\ ltask[m].fn = "monitor"
  /\ ltask[m].cur \in positions
  /\ pos'[ltask[m].cur].currentPrice # pos[ltask[m].cur].currentPrice

\* C11: a monitoring tick with a successful price fetch, on a position whose
\* entry bar is 75 or more fifteen-minute bars back, exits the position with
\* reason max_holding_period at the current price; currentBarIndex is what
\* updateIndicators computes now, entryBarIndex what it computed at entry.
C11_HoldingExitFires ==
  [][ \A m \in LoopTasks :
        ( /\ TickWithNewPrice(m)
          /\ currentBarIndex = FoundIndex(now)
          /\ pos[ltask[m].cur].entryBarIndex = FoundIndex(pos[ltask[m].cur].entryDate)
          /\ BarsElapsed(pos[ltask[m].cur].entryDate, now) >= MAX_HOLDING_BARS )
        => /\ ltask'[m].pc = "exit"
           /\ ltask'[m].reason = "max_holding_period"
           /\ ltask'[m].exitPrice = pos'[ltask[m].cur].currentPrice
    ]_vars


\* the step is the end of loop m's work on its current position without the
\* position being closed: its price fetch failed (or changed nothing), or
\* its exit order failed
TickFailed(m) ==
  /\ ltask[m].fn = "monitor"
  /\ \/ ltask[m].pc = "fetch" /\ ltask'[m] # ltask[m] /\ ltask'[m].pc # "exit"
                              /\ pos'[ltask[m].cur] = pos[ltask[m].cur]
     \/ ltask[m].pc = "exit" /\ ltask'[m] # ltask[m] /\ ltask[m].cur \in positions'

\* places of the insertion order after loop m's current one that hold an
\* open position
LaterOpen(m) ==
  { i \in DOMAIN insOrder : i > ltask[m].idx /\ insOrder[i] \in positions }

\* C12: within a monitorPositions tick, a failed price fetch or a failed exit
\* order for one position changes no other position, and the tick goes on
\* to evaluate the next open position (it ends only when there is none).
C12_FailureIsolated ==
  [][ \A m \in LoopTasks :
        TickFailed(m) =>
          /\ \A id \in DOMAIN pos : id # ltask[m].cur => pos'[id] = pos[id]
          /\ positions' = positions
          /\ IF LaterOpen(m) = {}
                THEN ltask'[m].pc = "idle"
                ELSE /\ ltask'[m].pc = "fetch"
                     /\ ltask'[m].fn = "monitor"
                     /\ ltask'[m].idx \in LaterOpen(m)
                     /\ \A i \in LaterOpen(m) : ltask'[m].idx <= i
                     /\ ltask'[m].cur = insOrder[ltask'[m].idx]
    ]_vars

\* C12 witness: the tick is evaluating the second position although the
\* price fetch of the first, still open, position has failed
C12_Witness ==
  \E m \in LoopTasks :
    /\ ltask[m].pc = "fetch"
    /\ ltask[m].fn = "monitor"
    /\ ltask[m].idx = 2
    /\ insOrder[1] \in positions
    /\ pos[insOrder[1]].currentPrice = 0

\* an exit rule of monitorPositions applies to position p as it stands
\* with the current bar index cbi, at clock value t
ExitDue(p, cbi, t) ==
  \/ cbi - p.entryBarIndex >= MAX_HOLDING_BARS
  \/ p.status = "active" /\ p.intradayLow <= p.initialStop
  \/ p.status = "trailing" /\ p.intradayLow <= p.trailingStop
  \/ p.intradayHigh >= p.finalTarget
  \/ isFridayExit(t)

\* C13: a failed exit order leaves the position in the open set and not
\* closed, capital and the trade log as they were, and the exit still due;
\* a later tick with a successful price fetch on a position whose exit is
\* due attempts the exit again.
C13_FailedExitRetried ==
  [][ \A m \in LoopTasks :
        /\ ( /\ ltask[m].pc = "exit"
             /\ ltask[m].fn = "monitor"
             /\ ltask'[m] # ltask[m]
             /\ Len(orders') = Len(orders) )
           => /\ ltask[m].cur \in positions'
              /\ pos'[ltask[m].cur] = pos[ltask[m].cur]
              /\ pos'[ltask[m].cur].status # "closed"
              /\ capital' = capital
              /\ tradeLog' = tradeLog
              /\ ExitDue(pos'[ltask[m].cur], currentBarIndex', now')
        /\ (TickWithNewPrice(m) /\ ExitDue(pos[ltask[m].cur], currentBarIndex, now))
           => ltask'[m].pc = "exit"
    ]_vars

\* C13 witness: the exit of an open position is being attempted again: its
\* exit was already due before this tick fetched a new price
C13_Witness ==
  \E m \in LoopTasks :
    /\ ExitAsked(m)
    /\ ltask[m].cur \in positions
    /\ ltask[m].reason = "stop_loss"
    /\ ltask[m].tickLow < pos[ltask[m].cur].currentPrice


\* C14: exit retries are bounded: in every run the monitor loop eventually
\* stops attempting exits (the position is closed, or it has been handed
\* over for manual intervention), even when every exit order fails.
C14_RetriesBounded ==
  <>[](\A m \in LoopTasks : ltask[m].pc # "exit")


\* C15: Scenario C, maxPositions = 1 and two enterPosition calls in flight
\* together: only one Position is ever created, and once it is in the open
\* set no other call is still on its way to place or confirm an order (the
\* other call was rejected at the limit check).
C15_ScenarioC ==
  config.maxPositions = 1 =>
    /\ Cardinality(DOMAIN pos) <= 1
    /\ positions # {} => \A e \in EnterTasks : etask[e].pc = "idle"

\* C16: the entryPrice of every created Position is the average fill price
\* the broker reports for its entry order, whatever the report holds.
C16_EntryPriceIsFillPrice ==
  \A id \in DOMAIN pos : pos[id].entryPrice = orders[id].average_price

\* C17: once the shutdown handler is past closeAllPositions, and no broker
\* call has failed, the open set is empty and stays empty.
C17_ShutdownEmptiesOpenSet ==
  ( /\ ltask["shutdown"].pc = "done"
    /\ \A i \in DOMAIN orderLog : orderLog[i].status # "FAILED" )
  => positions = {}


\* the rows of the chain that are not expired and have the strike and the
\* option kind of the target
Survivors(instruments, optionType, targetStrike, today) ==
  { instruments[i] : i \in { j \in DOMAIN instruments :
      /\ instruments[j].instrument_type = optionType
      /\ instruments[j].strike = targetStrike
      /\ instruments[j].expiry > today } }

\* a comes before b under (expiry ascending, open interest descending,
\* volume descending)
RanksBefore(a, b) ==
  \/ a.expiry < b.expiry
  \/ a.expiry = b.expiry /\ a.oi > b.oi
  \/ a.expiry = b.expiry /\ a.oi = b.oi /\ a.volume > b.volume

\* C18: selectBestContract returns null when no candidate survives, and else
\* a survivor that no other survivor precedes under (expiry ascending, open
\* interest descending, volume descending).
C18_SelectsTopRanked ==
  (ret # NoCall /\ ret.fn = "selectBestContract") =>
    LET optionType == IF args.side = "long" THEN "CE" ELSE "PE"
        surviving == Survivors(args.instruments, optionType,
                       findNearestStrike(args.spotPrice, optionType,
                                         config.strikeStep), now.day)
    IN  IF surviving = {} THEN ~ret.value.found
        ELSE /\ ret.value.found
             /\ ret.value.row \in surviving
             /\ \A c \in surviving : ~RanksBefore(c, ret.value.row)


AbsDiff(a, b) ==
  IF a >= b THEN a - b ELSE b - a

\* the multiple of step nearest to x (the upper one when two are as near)
NearestMultiple(x, step) ==
  LET lower == (x \div step) * step
      upper == lower + step
  IN  IF AbsDiff(x, upper) <= AbsDiff(x, lower) THEN upper ELSE lower

\* the rows of the snapshot with the target strike and kind of the signal
\* whose expiry is a date not before the trade date
SurvivingRows(snapshot, side, underlyingClose, tradeDate) ==
  LET atm == NearestMultiple(underlyingClose, STRIKE_STEP)
  IN  { snapshot[i] : i \in { j \in DOMAIN snapshot :
          /\ snapshot[j].type = (IF side = "long" THEN "CE" ELSE "PE")
          /\ snapshot[j].strike = (IF side = "long" THEN atm + STRIKE_STEP
                                                     ELSE atm - STRIKE_STEP)
          /\ snapshot[j].expiryDt # NaNDate
          /\ snapshot[j].expiryDt >= tradeDate } }

\* a comes before b under (expiry ascending, open interest descending,
\* contracts descending)
RowRanksBefore(a, b) ==
  \/ a.expiryDt < b.expiryDt
  \/ a.expiryDt = b.expiryDt /\ a.oi > b.oi
  \/ a.expiryDt = b.expiryDt /\ a.oi = b.oi /\ a.contracts > b.contracts

\* C19: the backtest selectContract targets strike ATM + step, kind CE for
\* a long signal and ATM - step, kind PE for a short one, ATM being the
\* multiple of the strike step nearest to the spot; among the rows of that
\* strike and kind whose expiry is a date not before the trade date it
\* returns one that no other precedes under (expiry ascending, open
\* interest descending, contracts descending), and null when there is none.
C19_SelectContract ==
  (ret # NoCall /\ ret.fn = "selectContract") =>
    LET surviving == SurvivingRows(args.snapshot, args.side,
                                   args.underlyingClose, Monday.day)
    IN  IF surviving = {} THEN ~ret.value.found
        ELSE /\ ret.value.found
             /\ ret.value.row \in surviving
             /\ \A c \in surviving : ~RowRanksBefore(c, ret.value.row)

\* C19 witness: the row returned is the nearest expiry although a row of
\* the target strike and kind with a later expiry has more open interest
C19_Witness ==
  /\ ret # NoCall
  /\ ret.fn = "selectContract"
  /\ ret.value.found
  /\ \E i \in DOMAIN args.snapshot :
       /\ args.snapshot[i].type = ret.value.row.type
       /\ args.snapshot[i].strike = ret.value.row.strike
       /\ args.snapshot[i].expiryDt > ret.value.row.expiryDt
       /\ args.snapshot[i].oi > ret.value.row.oi


\* a bar index at which the three indicators are computed from full windows
IndicatorsDefined(i, bbPeriod, smaPeriod, atrPeriod) ==
  i >= bbPeriod - 1 /\ i >= smaPeriod - 1 /\ i >= atrPeriod

\* C20: no signal returned by generateSignals or by generateSignals15Min
\* is for a bar whose Bollinger, SMA or ATR value is not yet defined, that
\* is a bar of index below bbPeriod - 1, smaPeriod - 1 or atrPeriod.
C20_NoSignalOnPlaceholder ==
  /\ (ret # NoCall /\ ret.fn = "generateSignals") =>
       \A k \in DOMAIN ret.value :
         IndicatorsDefined(ret.value[k].index, BbPeriod, SmaPeriod, AtrPeriod)
  /\ (ret # NoCall /\ ret.fn = "generateSignals15Min") =>
       \A k \in DOMAIN ret.value :
         IndicatorsDefined(ret.value[k].index, BbPeriod15Min, SmaPeriod15Min,
                           AtrPeriod15Min)


\* the series of scenario A: closes 100 nine times, then 90
ScenarioA ==
  /\ args.fn = "generateSignals"
  /\ args.shape = "scenarioA"
  /\ args.n = 10

\* C21: on the closes 100 (nine times) then 90, with the 10-period
\* Bollinger window, computeIndicators followed by generateSignals emits a
\* long band-reversal signal for the bar of index 9 and no band-reversal
\* signal for any earlier bar.
C21_ScenarioA ==
  (ret # NoCall /\ ScenarioA) =>
    /\ \E k \in DOMAIN ret.value :
         ret.value[k] = [index |-> 9, side |-> "long", type |-> "BB_reversal"]
    /\ \A k \in DOMAIN ret.value :
         ret.value[k].type = "BB_reversal" => ret.value[k].index >= 9


\* the sum of f over the index set S
RECURSIVE SumOfSet(_, _)
SumOfSet(f, S) ==
  IF S = {} THEN 0
  ELSE LET x == CHOOSE y \in S : TRUE
       IN  f[x] + SumOfSet(f, S \ {x})

\* the positions (from 1) of the last p bars up to the bar of index i
LastBars(i, p) ==
  { k \in 1..(i + 1) : k > i + 1 - p }

\* max(high - low, |high - prevClose|, |low - prevClose|) of the bar at
\* position k > 1
TrueRange(bars, k) ==
  LET three == { bars[k].high - bars[k].low,
                 AbsDiff(bars[k].high, bars[k - 1].close),
                 AbsDiff(bars[k].low, bars[k - 1].close) }
  IN  CHOOSE x \in three : \A y \in three : x >= y

\* out is what C22 says of the indicators of bars.  Means are compared
\* multiplied by their period; for the bands, with S the sum and Q the sum
\* of squares of the window of N closes, the population variance is
\* (N * Q - S * S) / N^2, and bbDev is N^3 times it (bbUpper and bbLower
\* are bbMid +- 2 * sqrt(bbDev / N^3)).
IndicatorsAsSpecified(bars, out, bbPeriod, smaPeriod, atrPeriod) ==
  LET closes == [k \in DOMAIN bars |-> bars[k].close]
      squares == [k \in DOMAIN bars |-> bars[k].close * bars[k].close]
      ranges == [k \in DOMAIN bars |-> IF k = 1 THEN 0 ELSE TrueRange(bars, k)]
  IN  /\ DOMAIN out = DOMAIN bars
      /\ \A k \in DOMAIN bars :
           LET i == k - 1
               S == SumOfSet(closes, LastBars(i, bbPeriod))
               Q == SumOfSet(squares, LastBars(i, bbPeriod))
           IN  /\ out[k].close = bars[k].close
               /\ out[k].sma = IF i >= smaPeriod - 1
                                 THEN SumOfSet(closes, LastBars(i, smaPeriod))
                                 ELSE 0
               /\ out[k].bbMid = IF i >= bbPeriod - 1 THEN S ELSE 0
               /\ out[k].bbDev = IF i >= bbPeriod - 1
                                   THEN bbPeriod * (bbPeriod * Q - S * S)
                                   ELSE 0
               /\ out[k].atr = IF i >= atrPeriod
                                 THEN SumOfSet(ranges, LastBars(i, atrPeriod))
                                 ELSE 0

\* C22: for every bar series and index i, sma(i) is the mean of the last
\* smaPeriod closes when i >= smaPeriod - 1, bbMid(i) the mean of the last
\* bbPeriod closes and the bands bbMid +- 2 population standard deviations
\* of that window when i >= bbPeriod - 1, atr(i) the mean of the last
\* atrPeriod true ranges when i >= atrPeriod; at any other index the field
\* holds the most recent defined value, which is the placeholder 0 as no
\* earlier index has one.
C22_IndicatorsAsSpecified ==
  /\ (ret # NoCall /\ ret.fn = "computeIndicators") =>
       IndicatorsAsSpecified(
         SeriesOf(args.shape, args.at, args.n, args.range), ret.value,
         BbPeriod, SmaPeriod, AtrPeriod)
  /\ (ret # NoCall /\ ret.fn = "computeIndicators15Min") =>
       IndicatorsAsSpecified(
         SeriesOf(args.shape, args.at, args.n, args.range), ret.value,
         BbPeriod15Min, SmaPeriod15Min, AtrPeriod15Min)

\* C22 witness: indicators of a series longer than every window, whose
\* first bar holds the placeholders and whose last bar has a band width
\* and an average true range that are not zero
C22_Witness ==
  /\ ret # NoCall
  /\ ret.fn = "computeIndicators"
  /\ args.n > SmaPeriod
  /\ ret.value[1].sma = 0
  /\ ret.value[1].atr = 0
  /\ ret.value[AtrPeriod].atr = 0
  /\ ret.value[AtrPeriod + 1].atr > 0
  /\ ret.value[args.n].sma > 0
  /\ ret.value[args.n].bbDev > 0


\* the start of the period of a tick: its day for aggregateToDaily, its
\* 15-minute slot for aggregateTo15Min
PeriodOf(fn, datetime) ==
  IF fn = "aggregateToDaily" THEN (datetime \div 1440) * 1440
  ELSE (datetime \div 15) * 15

\* bars is what C23 says of the aggregation of ticks
BarsAsSpecified(fn, ticks, bars) ==
  LET periods == { PeriodOf(fn, ticks[k].datetime) : k \in DOMAIN ticks }
      In(p) == { k \in DOMAIN ticks : PeriodOf(fn, ticks[k].datetime) = p }
  IN  /\ { bars[b].datetime : b \in DOMAIN bars } = periods
      /\ \A b, c \in DOMAIN bars : b < c => bars[b].datetime < bars[c].datetime
      /\ \A b \in DOMAIN bars :
           LET mine == In(bars[b].datetime)
               first == CHOOSE k \in mine :
                          \A j \in mine : ticks[k].datetime <= ticks[j].datetime
               last == CHOOSE k \in mine :
                         \A j \in mine : ticks[k].datetime >= ticks[j].datetime
           IN  /\ bars[b].open = ticks[first].open
               /\ bars[b].close = ticks[last].close
               /\ \A k \in mine : bars[b].high >= ticks[k].high
               /\ \E k \in mine : bars[b].high = ticks[k].high
               /\ \A k \in mine : bars[b].low <= ticks[k].low
               /\ \E k \in mine : bars[b].low = ticks[k].low

\* C23: for any list of ticks in any order, aggregateToDaily and
\* aggregateTo15Min return exactly one bar for each period that has a
\* tick and none for an empty period, in strictly ascending period order,
\* with the open of the period's earliest tick, the close of its latest
\* tick, the greatest high and the least low of the period.
C23_BarsAsSpecified ==
  ret # NoCall /\ ret.fn \in {"aggregateToDaily", "aggregateTo15Min"} =>
    BarsAsSpecified(ret.fn, args.minuteData, ret.value)


\* the profit C24 gives a position closed at exitPrice
SignedProfit(p, exitPrice) ==
  IF p.side = "long" THEN (exitPrice - p.entryPrice) * p.quantity
  ELSE (p.entryPrice - exitPrice) * p.quantity

\* C24: on every exit the profit is (exitPrice - entryPrice) * quantity for
\* a long position and (entryPrice - exitPrice) * quantity for a short one,
\* and capital after the exit is capital before it plus that profit.
C24_ProfitBySide ==
  [][Len(tradeLog') > Len(tradeLog) =>
       LET record == tradeLog'[Len(tradeLog')]
           expected == SignedProfit(pos[record.orderId], record.exitPrice)
       IN  /\ record.profit = expected
           /\ pos'[record.orderId].profit = expected
           /\ capital' = capital + expected]_vars


\* the moves of a position's status C25 allows in one step
StatusMoves ==
  { << "active", "active" >>, << "trailing", "trailing" >>,
    << "closed", "closed" >>, << "active", "trailing" >>,
    << "active", "closed" >>, << "trailing", "closed" >> }

\* C25: a position's status only moves active -> trailing, active -> closed
\* or trailing -> closed, and once a position is closed it is never
\* mutated, never exited again (no further SELL order, no further
\* TradeRecord) and never put back into the open set, in every
\* interleaving of the two loops and closeAllPositions.
C25_ClosedIsTerminal ==
  [][\A id \in DOMAIN pos :
       /\ << pos[id].status, pos'[id].status >> \in StatusMoves
       /\ pos[id].status = "closed" =>
            /\ pos'[id] = pos[id]
            /\ id \notin positions'
            /\ Cardinality(SellOrders(id)') = Cardinality(SellOrders(id))
            /\ Cardinality(TradeRecordsOf(id)') = Cardinality(TradeRecordsOf(id))]_vars


\* C26: at every point where another task can observe the manager, no
\* position in the open-position map has status closed: exitPosition
\* removes the position from the map in the step that marks it closed and
\* books its profit.
C26_NoClosedInMap ==
  /\ \A id \in positions : pos[id].status # "closed"
  /\ \A i \in DOMAIN tradeLog : tradeLog[i].orderId \notin positions

\* C26 witness: a position has been exited: it is closed, its TradeRecord
\* is saved, and it is out of the map
C26_Witness ==
  \E id \in DOMAIN pos :
    /\ pos[id].status = "closed"
    /\ TradeRecordsOf(id) # {}
    /\ id \notin positions


\* entryPrice and, when given, currentPrice lie between the running low
\* and the running high of p
Bracketed(p, withCurrent) ==
  /\ p.intradayLow <= p.entryPrice
  /\ p.entryPrice <= p.intradayHigh
  /\ withCurrent => /\ p.intradayLow <= p.currentPrice
                     /\ p.currentPrice <= p.intradayHigh

\* the running high of an open position did not decrease and its running
\* low did not increase in this step
ExtremesMonotonic ==
  \A id \in positions \cap positions' :
    /\ pos'[id].intradayHigh >= pos[id].intradayHigh
    /\ pos'[id].intradayLow <= pos[id].intradayLow

\* C27 as stated: after entry and after every monitoring tick each open
\* position has intradayLow <= entryPrice <= intradayHigh and intradayLow <=
\* currentPrice <= intradayHigh, and over the ticks intradayHigh never
\* decreases and intradayLow never increases.
C27_ExtremesBracketPrices ==
  [][/\ \A id \in positions' : Bracketed(pos'[id], TRUE)
     /\ ExtremesMonotonic]_vars

\* C27 amended: the same, the bounds on currentPrice holding once a
\* monitoring tick has given the position a current price (enterPosition
\* creates the position without one).
C27_ExtremesBracketPricesOnceSet ==
  [][/\ \A id \in positions' :
          Bracketed(pos'[id], pos'[id].currentPrice # 0)
     /\ ExtremesMonotonic]_vars

\* C27 witness: an open position whose last price is below its running
\* high and whose running high is above its entry price
C27_Witness ==
  \E id \in positions :
    /\ pos[id].currentPrice # 0
    /\ pos[id].currentPrice < pos[id].intradayHigh
    /\ pos[id].entryPrice < pos[id].intradayHigh
    /\ pos[id].intradayLow <= pos[id].currentPrice


\* C28: when enableTrailing is false no position moves from active to
\* trailing and no exit has the reason trailing_stop.
C28_TrailingFlagHonored ==
  ~config.enableTrailing =>
    /\ \A id \in DOMAIN pos : pos[id].status # "trailing"
    /\ \A i \in DOMAIN tradeLog : tradeLog[i].reason # "trailing_stop"
    /\ \A m \in LoopTasks :
         ltask[m].pc = "exit" => ltask[m].reason # "trailing_stop"


\* the sum of the profits of the first n trade records
RECURSIVE RealisedPnL(_)
RealisedPnL(n) ==
  IF n = 0 THEN 0 ELSE tradeLog[n].profit + RealisedPnL(n - 1)

\* the realised loss of the day has reached maxDailyLoss
DailyLossReached ==
  0 - RealisedPnL(Len(tradeLog)) >= config.maxDailyLoss

\* C29: once the realised loss of the day reaches maxDailyLoss, the next
\* iteration of the 60 s trading loop stops trading and closes all open
\* positions: from then on the run leads to a state where trading is
\* stopped, the loop is cleared and no position is open.
C29_DailyLossStopsTrading ==
  DailyLossReached ~> (~tradingActive /\ ~tradingInterval /\ positions = {})


\* clock value t is on a Friday at or after 15:15
FridayPreCloseReached(t) ==
  /\ t.day % 7 = 5
  /\ SlotMinutes(t.slot) >= 15 * 60 + 15

\* the exit reasons of the rules monitorPositions ranks above the calendar
\* exit
HigherReasons ==
  { "max_holding_period", "stop_loss", "trailing_stop", "target" }

\* C30: a monitoring tick on a Friday at or after 15:15 whose price fetch
\* succeeds exits the open position; unless one of the higher-priority
\* rules exits it, the exit is at the current price with the calendar-exit
\* reason (friday_exit).
C30_FridayExit ==
  [][ \A m \in LoopTasks :
        (TickWithNewPrice(m) /\ FridayPreCloseReached(now))
        => /\ ltask'[m].pc = "exit"
           /\ ltask'[m].reason \notin HigherReasons
                => /\ ltask'[m].reason = "friday_exit"
                   /\ ltask'[m].exitPrice = pos'[ltask[m].cur].currentPrice
    ]_vars

\* the signal a trade record of the backtest came from
SignalOf(t) ==
  CHOOSE s \in { args.signals[k] : k \in DOMAIN args.signals } :
    s.idx = t.entryDate

\* the row of the contract on the bar a trade ended on
ExitRow(t) ==
  IF t.exitDate = t.entryDate THEN SignalOf(t).contract
  ELSE SignalOf(t).later[t.exitDate - t.entryDate]

BacktestReturned ==
  ret # NoCall /\ ret.fn = "backtestTrailing"

\* C32: in backtestTrailing, a bar on which the option's low is at or below
\* initialStop and its high is at or above finalTarget closes the trade at
\* initialStop, not at finalTarget.
C32_StopBeforeTarget ==
  BacktestReturned =>
    \A i \in DOMAIN ret.value :
      LET t == ret.value[i]
          row == ExitRow(t)
      IN  (row.low # NaN /\ row.low <= t.initialStop
             /\ row.high >= t.finalTarget)
            => t.exitPrice = t.initialStop

\* the row of the contract j bars after the entry of trade t
RowAfter(t, j) ==
  IF j = 0 THEN SignalOf(t).contract
  ELSE IF j <= Len(SignalOf(t).later) THEN SignalOf(t).later[j]
  ELSE NoRow

\* the option's high reached target1 on or before the exit bar
ReachedTarget1(t) ==
  \E j \in 0..(t.exitDate - t.entryDate) :
    RowAfter(t, j).high # NaN /\ RowAfter(t, j).high >= t.target1

CapitalBefore(i) ==
  IF i = 1 THEN START_CAPITAL ELSE ret.value[i - 1].capitalAfter

LastHeldBar(t) ==
  Min2(HoldingBars, Len(SignalOf(t).later))

BacktestReason(t) ==
  IF t.exitPrice = t.finalTarget THEN "target"
  ELSE IF t.exitPrice = t.initialStop /\ ~ReachedTarget1(t) THEN "stop_loss"
  ELSE IF t.exitPrice = t.trailingStop /\ ReachedTarget1(t)
    THEN "trailing_stop"
  ELSE "max_holding_period"

Agree(t, live) ==
  /\ live.closed
  /\ live.exitBar = t.exitDate - t.entryDate
  /\ live.reason = BacktestReason(t)
  /\ live.exitPrice = t.exitPrice

\* C31: driven by the same entry and the same per-period (low, high)
\* observations, the live position state machine and backtestTrailing close
\* the trade in the same period, for the same cause, at the same price.
C31_LiveAgreesWithBacktest ==
  (BacktestReturned /\ Len(ret.value) >= 1) =>
    \A order \in {"lowFirst", "highFirst"} :
      Agree(ret.value[1], LiveExit(SignalOf(ret.value[1]), args.finalRR, order))

\* the same with the order of the two observations of a period left free
C31_AgreesInSomeOrder ==
  (BacktestReturned /\ Len(ret.value) >= 1) =>
    \E order \in {"lowFirst", "highFirst"} :
      Agree(ret.value[1], LiveExit(SignalOf(ret.value[1]), args.finalRR, order))

\* cost > this.capital * 0.8 for a contract quoted at c.last_price
OverCapital(c) ==
  10 * Max2(c.last_price - config.entryBuffer, MinEntryPrice)
     * getNumLots(capital) * config.lotSize > 8 * capital

\* an attempt whose cost is over 80% of the capital places no order, is
\* logged once as REJECTED 'Insufficient capital' and changes neither the
\* capital nor the open positions
C33_OverCapitalRejected ==
  [][\A e \in EnterTasks, c \in Contracts \cup CapitalContracts :
       (EnterPosition_Select(e, c) /\ c.last_price > 0 /\ OverCapital(c))
         => /\ orderLog' = Append(orderLog,
                 [kind |-> "ENTRY", status |-> "REJECTED",
                  error |-> "Insufficient capital", orderId |-> 0])
            /\ etask'[e].pc = "idle"
            /\ UNCHANGED << orders, capital, positions, pos >>]_vars

\* C33 (as stated): no Position is created whose cost (entry price times
\* quantity) is over 80% of the capital at the time it is created; an attempt
\* over that limit places no order, is logged once as REJECTED 'Insufficient
\* capital' and leaves the capital and the open positions unchanged.
C33_CostWithinCapital ==
  [][/\ \A o \in positions' \ positions :
          10 * pos'[o].entryPrice * pos'[o].quantity <= 8 * capital'
     /\ \A e \in EnterTasks, c \in Contracts \cup CapitalContracts :
          (EnterPosition_Select(e, c) /\ c.last_price > 0 /\ OverCapital(c))
            => /\ orderLog' = Append(orderLog,
                    [kind |-> "ENTRY", status |-> "REJECTED",
                     error |-> "Insufficient capital", orderId |-> 0])
               /\ etask'[e].pc = "idle"
               /\ UNCHANGED << orders, capital, positions, pos >>]_vars

\* C33 (amended): an order is placed only for a cost within 80% of the
\* capital read by the check, the Position created for it costs no more than
\* the cost checked, and an attempt over the limit is rejected as stated.
C33_CostWithinCheckedCapital ==
  [][/\ \A e \in EnterTasks :
          (etask[e].pc = "select" /\ etask'[e].pc = "place")
            => 10 * etask'[e].entryPrice * etask'[e].quantity <= 8 * capital
     /\ \A o \in positions' \ positions :
          \E e \in EnterTasks :
            /\ etask[e].pc = "verify" /\ etask[e].orderId = o
            /\ pos'[o].quantity = etask[e].quantity
            /\ pos'[o].entryPrice <= etask[e].entryPrice
            /\ orders[o].price = etask[e].entryPrice
            /\ orders[o].quantity = etask[e].quantity
     /\ \A e \in EnterTasks, c \in Contracts \cup CapitalContracts :
          (EnterPosition_Select(e, c) /\ c.last_price > 0 /\ OverCapital(c))
            => /\ orderLog' = Append(orderLog,
                    [kind |-> "ENTRY", status |-> "REJECTED",
                     error |-> "Insufficient capital", orderId |-> 0])
               /\ etask'[e].pc = "idle"
               /\ UNCHANGED << orders, capital, positions, pos >>]_vars

\* an attempt was rejected for its cost and another one became a position
C33_Witness ==
  /\ \E i \in DOMAIN orderLog :
       orderLog[i].status = "REJECTED"
         /\ orderLog[i].error = "Insufficient capital"
  /\ positions # {}

\* enterPosition is still waiting to verify order i
BeingVerified(i) ==
  \E e \in EnterTasks : etask[e].pc = "verify" /\ etask[e].orderId = i

\* C34: no entry BUY order can become filled at the broker without a
\* corresponding Position: once enterPosition has verified an order, either a
\* Position was created for it or the order is no longer working (open) or
\* filled at the broker.
C34_NoFillWithoutPosition ==
  \A i \in DOMAIN orders :
    (orders[i].type = "BUY" /\ orders[i].status \in {"OPEN", "COMPLETE"}
       /\ ~BeingVerified(i))
      => i \in DOMAIN pos

\* the part of C34 about fills alone: a filled BUY order has its Position
C34_FilledHasPosition ==
  \A i \in DOMAIN orders :
    (orders[i].type = "BUY" /\ orders[i].status = "COMPLETE"
       /\ ~BeingVerified(i))
      => i \in DOMAIN pos

\* the exit SELL order of position o has been filled at the broker
SellFilled(o) ==
  \E i \in DOMAIN orders :
    /\ orders[i].type = "SELL"
    /\ orders[i].forPos = o
    /\ orders[i].status = "COMPLETE"

\* C35: a position is removed from the open set, marked closed, or has its
\* profit booked to capital and the trade log, only once its exit SELL order
\* has been filled; the broker accepting the limit SELL does not close it.
C35_ClosedOnlyOnceSold ==
  /\ \A o \in DOMAIN pos :
       (o \notin positions \/ pos[o].status = "closed") => SellFilled(o)
  /\ \A k \in DOMAIN tradeLog : SellFilled(tradeLog[k].orderId)
  /\ capital # config.capital => \E o \in DOMAIN pos : SellFilled(o)

\* no trade has been closed, and no exit asked, with reason target
NeverTarget ==
  /\ \A i \in DOMAIN tradeLog : tradeLog[i].reason # "target"
  /\ \A m \in CallbackTasks : ltask[m].reason # "target"

\* C36: the final-target exit is reachable: on a price path that rises from
\* the entry to finalTarget without ever trading under the entry price,
\* within the holding limit, monitorPositions exits the position with reason
\* target, not pre-empted by the move to trailing and the trailing stop.
C36_TargetReachable ==
  \A m \in LoopTasks :
    ( /\ ExitAsked(m)
      /\ ltask[m].tickBars < MAX_HOLDING_BARS
      /\ ~isFridayExit(now)
      /\ ltask[m].tickLow >= pos[ltask[m].cur].entryPrice
      /\ ltask[m].tickHigh >= pos[ltask[m].cur].finalTarget )
    => ltask[m].reason = "target"

NoExitInProgress ==
  \A m \in CallbackTasks : ltask[m].pc # "exit"

BoughtContract ==
  selectBestContract(args.spotPrice, args.side, args.instruments, now.day).row

\* C38: the expiry, strike and tradingSymbol recorded in a created Position
\* all belong to the one contract whose BUY order was placed, the contract
\* selectBestContract returned.
C38_PositionNamesContract ==
  (ret # NoCall /\ ret.fn = "enterPosition" /\ ret.value.created) =>
    /\ ret.value.tradingSymbol = TradingSymbol(BoughtContract)
    /\ ret.value.strike = BoughtContract.strike
    /\ ret.value.expiry = BoughtContract.expiry

\* C39: generateSignals15Min emits a breakout signal for bar i only when the
\* SMA of bar i and the SMA of bar i - 1 are both defined, that is when both
\* bars have index smaPeriod - 1 or more: the trend condition is never
\* evaluated against the placeholder of bar i - 1.
C39_BreakoutNeedsBothSma ==
  (ret # NoCall /\ ret.fn = "generateSignals15Min") =>
    \A k \in DOMAIN ret.value :
      ret.value[k].type = "breakout" =>
        /\ ret.value[k].index >= SmaPeriod15Min - 1
        /\ ret.value[k].index - 1 >= SmaPeriod15Min - 1

====
